---- MODULE Spec2Model ----
(***************************************************************************)
(* State-machine model of the SafeBench runners:                           *)
(*   - CarlaRunner  (src/safebench/carla_runner.py): _eval_sampler, eval,  *)
(*     close;                                                              *)
(*   - ScenicRunner (src/safebench/scenic_runner.py): update_scene,        *)
(*     set_scene, train, eval, run, check_continue_training;               *)
(*   - VehicleTurningRouteDynamic (object_crash_intersection.py);          *)
(*   - the constructors and run of both runners, env.reset / env.step      *)
(*     raising inside the loops, and find_model_path (util/run_util.py).   *)
(* The vectorized environment (VectorWrapper), the data loader and the     *)
(* scenario operation helper are not part of src/; they are modelled from  *)
(* spec.md (sections 3, 4.1, 4.2) and marked as such in MODEL_MAP.json.    *)
(***************************************************************************)
EXTENDS Integers, Sequences, FiniteSets, TLC

(***************************************************************************)
(* Bounds of the model.                                                    *)
(***************************************************************************)
MaxConfigs == 3          \* longest config list handed to eval
MaxNumScenario == 3      \* largest num_scenario (number of slots)
MaxEpisodeStep == 3      \* the environment's global episode-length cap
MaxTrainEpisode == 3     \* largest train_episode
MaxContinue == 2         \* largest continue_episode a policy reports
MaxFreq == 2             \* largest save_freq / eval_in_train_freq
MaxTrainScenario == 1    \* largest num_scenario and data-loader size of a train run
NumScenes == 2           \* distinct candidate scenes generateScene can return
MaxActors == 2           \* largest number of actors in the simulator's registry
MaxClose == 2            \* largest number of close() calls in a row
MaxLanes == 3            \* largest number of lanes to the right of a waypoint
MaxFiles == 3            \* largest number of files under the checkpoint directory
MaxTowns == 2            \* largest number of towns in map_town_config

VARIABLES
    prog,                 \* which program runs: "carla", "scenic_eval", "scenic_train", "close",
                          \* "scenario", "carla_run", "scenic_init", "find_model_path"
    pc,                   \* position of the running program
    calls,                \* calls issued so far (whole eval run, or current train episode)
    \* ---- configuration, fixed by __init__
    mode,                 \* self.mode
    num_scenario,         \* self.num_scenario
    scenario_category,    \* self.scenario_category
    agent_type,           \* self.agent_policy.type
    scenario_type,        \* self.scenario_policy.type
    train_episode,        \* self.train_episode
    save_freq,            \* self.save_freq
    eval_in_train_freq,   \* self.eval_in_train_freq
    reject_all,           \* simulation binding: TRUE when it rejects every candidate scene
    \* ---- eval / train loop
    config_lists,         \* CarlaRunner.eval: config_lists; ScenicRunner: configs left in the data loader
    scenario_configs,     \* the batch returned by the sampler
    num_total_scenario,   \* num_total_scenario / data_loader.num_total_scenario
    num_finished_scenario,\* num_finished_scenario
    rewards_list,         \* rewards_list / score_list, keyed by scenario_id
    pre_lists,            \* config list as it was on entry of the last sampler call
    reset_batches,        \* batches passed to env.reset so far
    \* ---- vectorized environment
    env_assigned,         \* number of slots assigned at reset
    env_active,           \* active (not done) slots, in slot order
    env_tick,             \* ticks since reset
    env_done_tick,        \* tick at which each slot became done (0: not yet)
    infos_hist,           \* per tick of the batch, the scenario_ids of the infos step returned
    \* ---- scenic scene
    scene,                \* self.scene (0: not set)
    candidate,            \* the scene generateScene returned last (0: none)
    scene_ret,            \* where update_scene was called from
    \* ---- policies
    agent_mode,           \* mode set on the agent policy by set_mode ("none": never set)
    scenario_mode,        \* mode set on the scenario policy
    agent_loaded,         \* agent_policy.load_model() was called
    scenario_loaded,      \* scenario_policy.load_model() was called
    \* ---- train
    continue_episode,     \* continue_episode of the policy given to check_continue_training
    start_episode,        \* start_episode
    e_i,                  \* loop index of train
    episodes,             \* the values of e_i of the episodes started so far
    saves,                \* the save_model calls so far, each with its argument
    \* ---- CarlaRunner.close and the simulator's actor registry
    world_loaded,         \* self.world is not None
    actors,               \* registry: actor id -> [type_id, alive, parent]
    cascade,              \* simulator: destroying an actor also destroys the actors attached to it
    close_results,        \* outcome of each close() call so far
    destroy_log,          \* ids of the actors destroy() was requested on, in order
    stop_log,             \* ids of the actors stop() was requested on, in order
    dead_destroys,        \* number of destroy() requests on an actor that was not alive
    \* ---- VehicleTurningRouteDynamic
    lanes,                \* lane graph: the lanes to the right of the start waypoint, nearest first
    has_next_start,       \* waypoint.next(start_distance) is not empty
    has_next_added,       \* waypoint.next(added_dist) is not empty
    spawn_ok,             \* the simulator can spawn the requested actor
    other_actors,         \* self.other_actors
    other_actor_transform,\* self.other_actor_transform
    actor_type_list,      \* self.actor_type_list
    reference_actor,      \* self.reference_actor ("None": not set)
    _num_lane_changes,    \* self._num_lane_changes
    error,                \* exception initialize_actors raised ("none": returned)
    commands,             \* commands update_behavior gave, per call
    _other_actor_target_velocity, \* self._other_actor_target_velocity
    stop_checks,          \* values check_stop_condition returned so far
    \* ---- construction and run of a runner
    raised,               \* exception that left the running program ("none": none)
    agent_made,           \* the agent (policy) object was instantiated
    scenario_made,        \* the scenario policy object was instantiated
    env_made,             \* the VectorWrapper was constructed
    renderer_made,        \* _init_renderer has run
    world,                \* the simulator's world and its settings
    fixed_delta_seconds,  \* self.fixed_delta_seconds
    scenario_policy_type, \* self.scenario_policy_type
    scenario_registered,  \* SCENARIO_POLICY_LIST has an entry for scenario_policy_type
    towns_left,           \* towns of map_town_config run has still to go through
    run_log,              \* steps of run for the current town, in order
    \* ---- find_model_path
    fmp_files,            \* the files os.walk(dir) yields, in its order
    fmp_itr,              \* the argument itr ([given |-> FALSE]: None)
    fmp_result,           \* what find_model_path returned or raised
    \* ---- the local obs of train and what store was given
    obs,                  \* obs of train: the tick the observation was made at (-1: not set)
    stored,               \* the arguments of the store calls of the current episode
    \* ---- the scenes of ScenicRunner
    accepted_scene,       \* the scene setSimulation accepted last (0: none)
    scene_fresh,          \* a scene was accepted since the last run_scene
    update_scene_calls,   \* number of calls of update_scene
    runs_fresh            \* per run_scene call: a scene was accepted since the run_scene before

cfg_vars == <<prog, mode, num_scenario, scenario_category, agent_type, scenario_type,
              train_episode, save_freq, eval_in_train_freq, reject_all>>

loop_vars == <<config_lists, scenario_configs, num_total_scenario, num_finished_scenario,
               rewards_list, pre_lists, reset_batches>>

env_vars == <<env_assigned, env_active, env_tick, env_done_tick, infos_hist>>

scene_vars == <<scene, candidate, scene_ret>>

policy_vars == <<agent_mode, scenario_mode, agent_loaded, scenario_loaded>>

train_vars == <<continue_episode, start_episode, e_i, episodes, saves>>

close_vars == <<world_loaded, actors, cascade, close_results, destroy_log, stop_log,
                dead_destroys>>

scn_vars == <<lanes, has_next_start, has_next_added, spawn_ok, other_actors,
              other_actor_transform, actor_type_list, reference_actor,
              _num_lane_changes, error, commands, _other_actor_target_velocity,
              stop_checks>>

buf_vars == <<obs, stored>>

scene_hist == <<accepted_scene, scene_fresh, update_scene_calls, runs_fresh>>

trace_vars == <<buf_vars, scene_hist>>

life_main == <<raised, agent_made, scenario_made, env_made, renderer_made, world,
               fixed_delta_seconds, scenario_policy_type, scenario_registered,
               towns_left, run_log, fmp_files, fmp_itr, fmp_result>>

life_vars == <<raised, agent_made, scenario_made, env_made, renderer_made, world,
               fixed_delta_seconds, scenario_policy_type, scenario_registered,
               towns_left, run_log, fmp_files, fmp_itr, fmp_result, trace_vars>>

life_rest == <<agent_made, scenario_made, env_made, renderer_made, world,
               fixed_delta_seconds, scenario_policy_type, scenario_registered,
               towns_left, run_log, fmp_files, fmp_itr, fmp_result, trace_vars>>

vars == <<pc, calls, cfg_vars, life_vars, loop_vars, env_vars, scene_vars, policy_vars, train_vars,
          close_vars, scn_vars>>

Min(a, b) == IF a <= b THEN a ELSE b
Max(a, b) == IF a >= b THEN a ELSE b
Range(s) == {s[i] : i \in 1..Len(s)}
Last(s) == s[Len(s)]
Iota(n) == [i \in 1..n |-> i]

(***************************************************************************)
(* Vectorized environment, from spec.md 4.2.                               *)
(*   reset assigns the batch to slots 0..n-1; the slot index is the        *)
(*   scenario_id carried by the info dicts.                                *)
(*   step returns one info/reward per slot active before the step, in slot *)
(*   order (compacted); slots that become done in the step are dropped     *)
(*   from the next step on.  Rewards are symbolic: the reward of slot k at *)
(*   tick t is the value [src |-> "reward", id |-> k, tick |-> t].         *)
(***************************************************************************)
EnvResetActive(n) == [i \in 1..n |-> i - 1]

EnvStepInfos(active, tick) ==
    [i \in 1..Len(active) |->
        [scenario_id |-> active[i],
         iou_loss |-> [src |-> "iou_loss", id |-> active[i], tick |-> tick]]]

EnvStepRewards(active, tick) ==
    [i \in 1..Len(active) |-> [src |-> "reward", id |-> active[i], tick |-> tick]]

\* the sets of slots that may become done in the step that makes the tick `tick`:
\* any of the active ones, all of them at the global episode-length cap
EnvDoneChoices(active, tick) ==
    IF tick >= MaxEpisodeStep THEN {Range(active)} ELSE SUBSET Range(active)

EnvRemaining(active, done) == SelectSeq(active, LAMBDA k : k \notin done)

EnvAllScenarioDone(active) == Len(active) = 0

\* env.reset(scenario_configs, ...) on a batch of n configs
EnvReset(n) ==
    /\ env_assigned' = n
    /\ env_active' = EnvResetActive(n)
    /\ env_done_tick' = [k \in 0..(n - 1) |-> 0]
    /\ env_tick' = 0
    /\ infos_hist' = <<>>

\* env.step(...): one tick; `done` is the set of slots that become done in it
EnvStep(done) ==
    /\ env_active' = EnvRemaining(env_active, done)
    /\ env_done_tick' = [k \in DOMAIN env_done_tick |->
                            IF k \in done THEN env_tick + 1 ELSE env_done_tick[k]]
    /\ env_tick' = env_tick + 1
    /\ infos_hist' = Append(infos_hist, [i \in 1..Len(env_active) |-> env_active[i]])
    /\ UNCHANGED env_assigned

\* the answer of env.all_scenario_done(), as logged in calls
\* observations, named by the tick they were made at: reset returns the
\* observation of tick 0, the step that makes tick t the observation of t
EnvResetObs == 0

EnvStepObs(tick) == tick

AllDoneCall(active) == IF EnvAllScenarioDone(active) THEN "all_done:T" ELSE "all_done:F"

(***************************************************************************)
(* CarlaRunner._eval_sampler (carla_runner.py 65-77).                      *)
(***************************************************************************)
\* list.pop(i) with a 1-based index: the popped item and the list left
PopKeepsItem(list, i) == [item |-> list[i], rest |-> list]

Pop(list, i) ==
    [item |-> list[i],
     rest |-> SubSeq(list, 1, i - 1) \o SubSeq(list, i + 1, Len(list))]

\* line 67
SampleNum(n, len) == Min(n, len)

\* every result of the loop of lines 72-74
RECURSIVE SampleLoop(_, _, _)
SampleLoop(list, selected, k) ==
    IF k = 0
    THEN {[selected |-> selected, rest |-> list]}
    ELSE UNION { SampleLoop(Pop(list, i).rest, Append(selected, Pop(list, i).item), k - 1)
                 : i \in 1..Len(list) }

_eval_sampler(list, n) == SampleLoop(list, <<>>, SampleNum(n, Len(list)))

(***************************************************************************)
(* CarlaRunner.eval (carla_runner.py 113-147).                             *)
(***************************************************************************)
\* line 138: the accumulator entry the reward at position reward_idx goes to
RewardKeyByPosition(infos, reward_idx) == reward_idx - 1

RewardKey(infos, reward_idx) == infos[reward_idx].scenario_id

\* lines 136-139
RECURSIVE AccumulateRewards(_, _, _, _)
AccumulateRewards(rl, infos, rewards, reward_idx) ==
    IF reward_idx > Len(infos) THEN rl
    ELSE AccumulateRewards(
            [rl EXCEPT ![RewardKey(infos, reward_idx)] = Append(@, rewards[reward_idx])],
            infos, rewards, reward_idx + 1)

\* carla_runner.py 123 and scenic_runner.py 265: {s_i: [] for s_i in range(n)}
NewAccumulatorOneBased(n) == [k \in 1..n |-> <<>>]

NewAccumulator(n) == [k \in 0..(n - 1) |-> <<>>]

\* line 116: while len(config_lists) > 0
EvalLoopCondOffByOne(list) == Len(list) > 1

EvalLoopCond(list) == Len(list) > 0

\* lines 125-127: if self.env.all_scenario_done(): break
CarlaBreakNever(all_done) == FALSE

CarlaBreak(all_done) == all_done

\* values of the variables a program does not use
NoScenicVars ==
    /\ scenario_category = "none"
    /\ agent_type = "none" /\ scenario_type = "none"
    /\ train_episode = 0 /\ save_freq = 1 /\ eval_in_train_freq = 1
    /\ reject_all = FALSE
    /\ scene = 0 /\ candidate = 0 /\ scene_ret = "none"
    /\ agent_mode = "none" /\ scenario_mode = "none"
    /\ agent_loaded = FALSE /\ scenario_loaded = FALSE
    /\ continue_episode = 0 /\ start_episode = 0 /\ e_i = 0 /\ episodes = <<>>
    /\ saves = <<>>

NoCloseVars ==
    /\ world_loaded = TRUE
    /\ actors = <<>>
    /\ cascade = FALSE
    /\ close_results = <<>>
    /\ destroy_log = <<>>
    /\ stop_log = <<>>
    /\ dead_destroys = 0

NoScenarioVars ==
    /\ lanes = <<>>
    /\ has_next_start = TRUE /\ has_next_added = TRUE /\ spawn_ok = TRUE
    /\ other_actors = <<>> /\ other_actor_transform = <<>> /\ actor_type_list = <<>>
    /\ reference_actor = "None"
    /\ _num_lane_changes = 0
    /\ error = "none"
    /\ commands = <<>>
    /\ _other_actor_target_velocity = 0
    /\ stop_checks = <<>>

\* the client before any world is loaded (self.world = None)
NoWorld ==
    [loaded |-> FALSE, town |-> 0, synchronous_mode |-> FALSE,
     fixed_delta_seconds |-> 0, weather |-> "Default"]

NoTrace ==
    /\ obs = -1 /\ stored = <<>>
    /\ accepted_scene = 0 /\ scene_fresh = FALSE
    /\ update_scene_calls = 0 /\ runs_fresh = <<>>

NoLifeVars ==
    /\ raised = "none"
    /\ agent_made = FALSE /\ scenario_made = FALSE
    /\ env_made = FALSE /\ renderer_made = FALSE
    /\ world = NoWorld
    /\ fixed_delta_seconds = 0
    /\ scenario_policy_type = "none"
    /\ scenario_registered = FALSE
    /\ towns_left = 0
    /\ run_log = <<>>
    /\ fmp_files = <<>>
    /\ fmp_itr = [given |-> FALSE, value |-> 0]
    /\ fmp_result = [kind |-> "pending", model |-> <<>>, max_itr |-> 0]
    /\ NoTrace

NoBatchYet ==
    /\ scenario_configs = <<>>
    /\ num_finished_scenario = 0
    /\ rewards_list = <<>>
    /\ pre_lists = <<>>
    /\ reset_batches = <<>>
    /\ env_assigned = 0
    /\ env_active = <<>>
    /\ env_tick = 0
    /\ env_done_tick = <<>>
    /\ infos_hist = <<>>
    /\ calls = <<>>

InitCarla ==
    /\ prog = "carla"
    /\ pc = "eval_head"
    /\ mode = "eval"
    /\ num_scenario \in 1..MaxNumScenario
    /\ \E n \in 0..MaxConfigs : config_lists = Iota(n)
    /\ num_total_scenario = Len(config_lists)
    /\ NoBatchYet
    /\ NoScenicVars
    /\ NoCloseVars /\ NoScenarioVars /\ NoLifeVars

\* lines 116-123: one pass of the outer loop up to the inner loop
CarlaSampleReset ==
    /\ prog = "carla" /\ pc = "eval_head"
    /\ EvalLoopCond(config_lists)
    /\ \E s \in _eval_sampler(config_lists, num_scenario) :
         LET n == Len(s.selected) IN
         /\ scenario_configs' = s.selected
         /\ config_lists' = s.rest
         /\ num_finished_scenario' = num_finished_scenario + n
         /\ rewards_list' = NewAccumulator(n)
         /\ EnvReset(n)
         /\ reset_batches' = Append(reset_batches, s.selected)
    /\ pre_lists' = config_lists
    /\ calls' = calls \o <<"sampler", "reset">>
    /\ pc' = "eval_loop"
    /\ UNCHANGED <<cfg_vars, life_vars, close_vars, scn_vars, num_total_scenario, scene_vars, policy_vars, train_vars>>

\* lines 124-139: one pass of the inner loop that does not break
CarlaEvalStep ==
    /\ prog = "carla" /\ pc = "eval_loop"
    /\ ~CarlaBreak(EnvAllScenarioDone(env_active))
    /\ \E done \in EnvDoneChoices(env_active, env_tick + 1) : EnvStep(done)
    /\ rewards_list' = AccumulateRewards(rewards_list,
                                         EnvStepInfos(env_active, env_tick + 1),
                                         EnvStepRewards(env_active, env_tick + 1), 1)
    /\ calls' = calls \o <<AllDoneCall(env_active), "agent.get_action", "step">>
    /\ UNCHANGED <<pc, cfg_vars, life_vars, close_vars, scn_vars, config_lists, scenario_configs, num_total_scenario,
                   num_finished_scenario, pre_lists, reset_batches,
                   scene_vars, policy_vars, train_vars>>

\* lines 125-127 and 141-147: the break, clean_up and the batch's log
CarlaBatchEnd ==
    /\ prog = "carla" /\ pc = "eval_loop"
    /\ CarlaBreak(EnvAllScenarioDone(env_active))
    /\ calls' = calls \o <<AllDoneCall(env_active), "clean_up">>
    /\ pc' = "eval_head"
    /\ UNCHANGED <<cfg_vars, life_vars, close_vars, scn_vars, loop_vars, env_vars, scene_vars, policy_vars, train_vars>>

\* line 116: the outer loop ends
CarlaEvalReturn ==
    /\ prog = "carla" /\ pc = "eval_head"
    /\ ~EvalLoopCond(config_lists)
    /\ pc' = "done"
    /\ UNCHANGED <<calls, cfg_vars, life_vars, close_vars, scn_vars, loop_vars, env_vars, scene_vars, policy_vars, train_vars>>

NextCarla == CarlaSampleReset \/ CarlaEvalStep \/ CarlaBatchEnd \/ CarlaEvalReturn

SpecCarla == InitCarla /\ [][NextCarla]_vars

FairCarla == SpecCarla /\ WF_vars(NextCarla)

(***************************************************************************)
(* Data loader of ScenicRunner (ScenicDataLoader), from spec.md section 2: *)
(* a batch of at most num_scenario configs, without replacement within a   *)
(* pass; reset_idx_counter starts a new pass over all configs.             *)
(***************************************************************************)
DataLoaderSampler(list, n) == SampleLoop(list, <<>>, Min(n, Len(list)))

DataLoaderReset(total) == Iota(total)

(***************************************************************************)
(* ScenicRunner.update_scene / set_scene (scenic_runner.py 141-152).       *)
(***************************************************************************)
\* what scenic.setSimulation(scene) can answer
SetSimulationResults == IF reject_all THEN {FALSE} ELSE BOOLEAN

\* lines 148-152: the value of self.scene after set_scene(cand)
SetSceneAlways(accepted, old, cand) == cand

SetScene(accepted, old, cand) == IF accepted THEN cand ELSE old

\* lines 145-146: if self.set_scene(scene): break
UpdateSceneBreak(accepted) == accepted

\* lines 143-146: one pass of the loop of update_scene
UpdateSceneAttempt ==
    /\ prog \in {"scenic_eval", "scenic_train"} /\ pc = "update_scene"
    /\ \E c \in 1..NumScenes, accepted \in SetSimulationResults :
         /\ candidate' = c
         /\ scene' = SetScene(accepted, scene, c)
         /\ accepted_scene' = IF accepted THEN c ELSE accepted_scene
         /\ scene_fresh' = (accepted \/ scene_fresh)
         /\ pc' = IF UpdateSceneBreak(accepted)
                  THEN (IF scene_ret = "_init_world" THEN "branch" ELSE "eval_head")
                  ELSE "update_scene"
    /\ UNCHANGED <<update_scene_calls, runs_fresh, buf_vars>>
    /\ UNCHANGED <<calls, cfg_vars, life_main, close_vars, scn_vars, loop_vars, env_vars, scene_ret, policy_vars, train_vars>>

(***************************************************************************)
(* ScenicRunner.run (scenic_runner.py 308-356), for one config of          *)
(* config_list.                                                            *)
(***************************************************************************)
\* lines 348-356
CheckContinueFromScratch(c) == 0

check_continue_training(c) == IF c = 0 THEN 0 ELSE c

InitScenicCommon(max_configs) ==
    /\ pc = "run"
    /\ reject_all \in BOOLEAN
    /\ \E n \in 1..max_configs : config_lists = Iota(n)
    /\ num_total_scenario = Len(config_lists)
    /\ NoBatchYet
    /\ scene = 0 /\ candidate = 0 /\ scene_ret = "none"
    /\ agent_mode = "none" /\ scenario_mode = "none"
    /\ agent_loaded = FALSE /\ scenario_loaded = FALSE
    /\ continue_episode = 0 /\ start_episode = 0 /\ e_i = 0 /\ episodes = <<>>
    /\ saves = <<>>
    /\ NoCloseVars /\ NoScenarioVars /\ NoLifeVars

InitScenicEval ==
    /\ prog = "scenic_eval"
    /\ mode = "eval"
    /\ num_scenario \in 1..MaxNumScenario
    /\ scenario_category \in {"planning", "perception"}
    /\ agent_type = "none" /\ scenario_type = "none"
    /\ train_episode = 0 /\ save_freq = 1 /\ eval_in_train_freq = 1
    /\ InitScenicCommon(MaxConfigs)

\* lines 312-317 and 128-130: _init_scenic, then _init_world up to update_scene
ScenicRun ==
    /\ prog \in {"scenic_eval", "scenic_train"} /\ pc = "run"
    /\ pc' = "update_scene"
    /\ scene_ret' = "_init_world"
    /\ update_scene_calls' = update_scene_calls + 1
    /\ UNCHANGED <<accepted_scene, scene_fresh, runs_fresh, buf_vars>>
    /\ UNCHANGED <<calls, cfg_vars, life_main, close_vars, scn_vars, loop_vars, env_vars, scene, candidate, policy_vars, train_vars>>

\* lines 329-330, 336-337 and 342-343: the modes set_mode gives the policies
SetModeBothTrain(m) ==
    CASE m = "eval" -> [agent |-> "eval", scenario |-> "eval"]
      [] m = "train_agent" -> [agent |-> "train", scenario |-> "train"]
      [] m = "train_scenario" -> [agent |-> "train", scenario |-> "train"]

SetMode(m) ==
    CASE m = "eval" -> [agent |-> "eval", scenario |-> "eval"]
      [] m = "train_agent" -> [agent |-> "train", scenario |-> "eval"]
      [] m = "train_scenario" -> [agent |-> "eval", scenario |-> "train"]

\* lines 131-135, 318-332 and 245-247: mode 'eval' up to the loop of eval
ScenicRunEval ==
    /\ prog = "scenic_eval" /\ pc = "branch"
    /\ mode = "eval"
    /\ agent_loaded' = TRUE /\ scenario_loaded' = TRUE
    /\ agent_mode' = SetMode("eval").agent /\ scenario_mode' = SetMode("eval").scenario
    /\ num_finished_scenario' = 0
    /\ config_lists' = DataLoaderReset(num_total_scenario)
    /\ pc' = "eval_head"
    /\ UNCHANGED <<calls, cfg_vars, life_vars, close_vars, scn_vars, scenario_configs, num_total_scenario, rewards_list,
                   pre_lists, reset_batches, env_vars, scene_vars, train_vars>>

(***************************************************************************)
(* ScenicRunner.eval (scenic_runner.py 244-306).                           *)
(***************************************************************************)
\* line 280
OneMinus(x) == [x EXCEPT !.src = "1-iou_loss"]

Score(category, rewards, infos, reward_idx) ==
    IF category \in {"planning", "scenic"}
    THEN rewards[reward_idx]
    ELSE OneMinus(infos[reward_idx].iou_loss)

\* line 281: the accumulator entry the score at position reward_idx goes to
ScoreKeyByPosition(infos, reward_idx) == reward_idx - 1

ScoreKey(infos, reward_idx) == infos[reward_idx].scenario_id

\* lines 278-282
RECURSIVE AccumulateScores(_, _, _, _, _)
AccumulateScores(sl, category, infos, rewards, reward_idx) ==
    IF reward_idx > Len(infos) THEN sl
    ELSE AccumulateScores(
            [sl EXCEPT ![ScoreKey(infos, reward_idx)] =
                            Append(@, Score(category, rewards, infos, reward_idx))],
            category, infos, rewards, reward_idx + 1)

\* line 248: while len(data_loader) > 0
ScenicEvalLoopCond(list) == Len(list) > 0

\* line 266: while not self.env.all_scenario_done()
ScenicStepCondInverted(active) == EnvAllScenarioDone(active)

ScenicStepCond(active) == ~EnvAllScenarioDone(active)

\* lines 248-265: one pass of the outer loop up to the inner loop
ScenicSampleReset ==
    /\ prog = "scenic_eval" /\ pc = "eval_head"
    /\ ScenicEvalLoopCond(config_lists)
    /\ \E s \in DataLoaderSampler(config_lists, num_scenario) :
         LET n == Len(s.selected) IN
         /\ scenario_configs' = s.selected
         /\ config_lists' = s.rest
         /\ num_finished_scenario' = num_finished_scenario + n
         /\ rewards_list' = NewAccumulator(n)
         /\ EnvReset(n)
         /\ reset_batches' = Append(reset_batches, s.selected)
    /\ pre_lists' = config_lists
    /\ calls' = calls \o <<"sampler", "run_scene", "get_static_obs",
                           "scenario.get_init_action", "reset", "agent.set_ego_and_route">>
    /\ runs_fresh' = Append(runs_fresh, scene_fresh)
    /\ scene_fresh' = FALSE
    /\ pc' = "eval_loop"
    /\ UNCHANGED <<accepted_scene, update_scene_calls, buf_vars>>
    /\ UNCHANGED <<cfg_vars, life_main, close_vars, scn_vars, num_total_scenario, scene_vars, policy_vars, train_vars>>

\* lines 266-282: one pass of the inner loop
ScenicEvalStep ==
    /\ prog = "scenic_eval" /\ pc = "eval_loop"
    /\ ScenicStepCond(env_active)
    /\ \E done \in EnvDoneChoices(env_active, env_tick + 1) : EnvStep(done)
    /\ rewards_list' = AccumulateScores(rewards_list, scenario_category,
                                        EnvStepInfos(env_active, env_tick + 1),
                                        EnvStepRewards(env_active, env_tick + 1), 1)
    /\ calls' = calls \o <<AllDoneCall(env_active), "agent.get_action",
                           "scenario.get_action", "step", "add_frame">>
    /\ UNCHANGED <<pc, cfg_vars, life_vars, close_vars, scn_vars, config_lists, scenario_configs, num_total_scenario,
                   num_finished_scenario, pre_lists, reset_batches,
                   scene_vars, policy_vars, train_vars>>

\* lines 266 and 284-306: the inner loop ends, clean_up, video, scores, next scene
ScenicBatchEnd ==
    /\ prog = "scenic_eval" /\ pc = "eval_loop"
    /\ ~ScenicStepCond(env_active)
    /\ calls' = calls \o <<AllDoneCall(env_active), "clean_up", "video_recorder.save">>
    /\ pc' = IF Len(config_lists) # 0 THEN "update_scene" ELSE "eval_head"
    /\ scene_ret' = IF Len(config_lists) # 0 THEN "eval" ELSE scene_ret
    /\ update_scene_calls' = IF Len(config_lists) # 0 THEN update_scene_calls + 1
                              ELSE update_scene_calls
    /\ UNCHANGED <<accepted_scene, scene_fresh, runs_fresh, buf_vars>>
    /\ UNCHANGED <<cfg_vars, life_main, close_vars, scn_vars, loop_vars, env_vars, scene, candidate, policy_vars, train_vars>>

\* line 248: the outer loop ends
ScenicEvalReturn ==
    /\ prog = "scenic_eval" /\ pc = "eval_head"
    /\ ~ScenicEvalLoopCond(config_lists)
    /\ pc' = "done"
    /\ UNCHANGED <<calls, cfg_vars, life_vars, close_vars, scn_vars, loop_vars, env_vars, scene_vars, policy_vars, train_vars>>

NextScenicEval ==
    \/ ScenicRun \/ UpdateSceneAttempt \/ ScenicRunEval
    \/ ScenicSampleReset \/ ScenicEvalStep \/ ScenicBatchEnd \/ ScenicEvalReturn

SpecScenicEval == InitScenicEval /\ [][NextScenicEval]_vars

FairScenicEval == SpecScenicEval /\ WF_vars(NextScenicEval)

\* both eval loops
SpecEval == (InitCarla \/ InitScenicEval) /\ [][NextCarla \/ NextScenicEval]_vars

(***************************************************************************)
(* ScenicRunner.train (scenic_runner.py 185-242) and the two train         *)
(* branches of run (333-344).                                              *)
(***************************************************************************)
AgentTypes == {"offpolicy", "onpolicy", "unlearnable"}

ScenarioTypes == {"offpolicy", "onpolicy", "init_state", "unlearnable"}

InitScenicTrain ==
    /\ prog = "scenic_train"
    /\ mode \in {"train_agent", "train_scenario"}
    /\ num_scenario \in 1..MaxTrainScenario
    /\ scenario_category \in {"planning", "perception"}
    /\ agent_type \in AgentTypes
    /\ scenario_type \in ScenarioTypes
    /\ train_episode \in 0..MaxTrainEpisode
    /\ save_freq \in 1..MaxFreq
    /\ eval_in_train_freq \in 1..MaxFreq
    /\ InitScenicCommon(MaxTrainScenario)

\* lines 333-338: mode 'train_agent' up to the loop of train
ScenicRunTrainAgent ==
    /\ prog = "scenic_train" /\ pc = "branch"
    /\ mode # "eval" /\ mode = "train_agent"
    /\ \E c \in 0..MaxContinue :
         /\ continue_episode' = c
         /\ start_episode' = check_continue_training(c)
         /\ e_i' = check_continue_training(c)
    /\ scenario_loaded' = TRUE
    /\ agent_mode' = SetMode("train_agent").agent
    /\ scenario_mode' = SetMode("train_agent").scenario
    /\ pc' = "train_head"
    /\ UNCHANGED <<calls, cfg_vars, life_vars, close_vars, scn_vars, loop_vars, env_vars, scene_vars, agent_loaded, episodes, saves>>

\* lines 339-344: mode 'train_scenario' up to the loop of train
ScenicRunTrainScenario ==
    /\ prog = "scenic_train" /\ pc = "branch"
    /\ mode # "eval" /\ mode # "train_agent" /\ mode = "train_scenario"
    /\ \E c \in 0..MaxContinue :
         /\ continue_episode' = c
         /\ start_episode' = check_continue_training(c)
         /\ e_i' = check_continue_training(c)
    /\ agent_loaded' = TRUE
    /\ agent_mode' = SetMode("train_scenario").agent
    /\ scenario_mode' = SetMode("train_scenario").scenario
    /\ pc' = "train_head"
    /\ UNCHANGED <<calls, cfg_vars, life_vars, close_vars, scn_vars, loop_vars, env_vars, scene_vars, scenario_loaded, episodes, saves>>

\* line 190: for e_i in range(start_episode, self.train_episode)
TrainRangeCond(i, stop) == i < stop

\* line 206: while not self.env.all_scenario_done()
TrainStepCond(active) == ~EnvAllScenarioDone(active)

\* lines 216-220: training after a step
StepTrainCallsSwapped(m, at, st) ==
    IF m = "train_agent" /\ at = "onpolicy" THEN <<"agent.train">>
    ELSE IF m = "train_scenario" /\ st \in {"init_state", "onpolicy"} THEN <<"scenario.train">>
    ELSE <<>>

StepTrainCalls(m, at, st) ==
    IF m = "train_agent" /\ at = "offpolicy" THEN <<"agent.train">>
    ELSE IF m = "train_scenario" /\ st = "offpolicy" THEN <<"scenario.train">>
    ELSE <<>>

\* lines 226-230: training after an episode
EndTrainCallsByTypeOnly(m, at, st) ==
    IF at = "onpolicy" THEN <<"agent.train">>
    ELSE IF st \in {"init_state", "onpolicy"} THEN <<"scenario.train">>
    ELSE <<>>

EndTrainCalls(m, at, st) ==
    IF m = "train_agent" /\ at = "onpolicy" THEN <<"agent.train">>
    ELSE IF m = "train_scenario" /\ st \in {"init_state", "onpolicy"} THEN <<"scenario.train">>
    ELSE <<>>

\* lines 232-235: eval during training (the call of eval is commented out)
EvalInTrainCalls(i, freq) ==
    IF (i + 1) % freq = 0 THEN <<"logger.log">> ELSE <<>>

\* lines 237-242: checkpoints
SaveCallsOnMultiples(i, freq, m) ==
    IF i % freq = 0
    THEN (IF m = "train_agent" THEN <<"agent.save_model">> ELSE <<>>)
         \o (IF m = "train_scenario" THEN <<"scenario.save_model">> ELSE <<>>)
    ELSE <<>>

SaveCalls(i, freq, m) ==
    IF (i + 1) % freq = 0
    THEN (IF m = "train_agent" THEN <<"agent.save_model">> ELSE <<>>)
         \o (IF m = "train_scenario" THEN <<"scenario.save_model">> ELSE <<>>)
    ELSE <<>>

\* line 214: obs = copy.deepcopy(next_obs)
CarryObsStale(o, next_obs) == o

CarryObs(o, next_obs) == next_obs

\* lines 223-224: the end of an episode
EndEpisodeCallsFinishFirst == <<"finish_one_episode", "clean_up">>

EndEpisodeCalls == <<"clean_up", "finish_one_episode">>

\* lines 190-203: one pass of the loop of train up to the inner loop
TrainEpisodeStart ==
    /\ prog = "scenic_train" /\ pc = "train_head"
    /\ TrainRangeCond(e_i, train_episode)
    /\ \E s \in DataLoaderSampler(config_lists, num_scenario) :
         /\ scenario_configs' = s.selected
         /\ EnvReset(Len(s.selected))
    /\ config_lists' = DataLoaderReset(num_total_scenario)
    /\ pre_lists' = config_lists
    /\ episodes' = Append(episodes, e_i)
    /\ calls' = <<"sampler", "reset_idx_counter", "get_static_obs",
                  "scenario.get_init_action", "reset", "store_init",
                  "agent.set_ego_and_route">>
    /\ obs' = EnvResetObs
    /\ stored' = <<>>
    /\ pc' = "train_loop"
    /\ UNCHANGED <<cfg_vars, life_main, scene_hist, close_vars, scn_vars, num_total_scenario, num_finished_scenario, rewards_list,
                   reset_batches, scene_vars, policy_vars,
                   continue_episode, start_episode, e_i, saves>>

\* lines 206-220: one pass of the inner loop
TrainStep ==
    /\ prog = "scenic_train" /\ pc = "train_loop"
    /\ TrainStepCond(env_active)
    /\ \E done \in EnvDoneChoices(env_active, env_tick + 1) : EnvStep(done)
    /\ calls' = calls \o <<AllDoneCall(env_active), "agent.get_action",
                           "scenario.get_action", "step", "store">>
                      \o StepTrainCalls(mode, agent_type, scenario_type)
    /\ LET ego_actions == [policy |-> "agent", obs |-> obs]
           scenario_actions == [policy |-> "scenario", obs |-> obs]
           next_obs == EnvStepObs(env_tick + 1)
       IN /\ stored' = Append(stored, [ego_actions |-> ego_actions,
                                        scenario_actions |-> scenario_actions,
                                        obs |-> obs, next_obs |-> next_obs])
          /\ obs' = CarryObs(obs, next_obs)
    /\ UNCHANGED <<pc, cfg_vars, life_main, scene_hist, close_vars, scn_vars, loop_vars, scene_vars, policy_vars, train_vars>>

\* lines 206 and 222-242: the inner loop ends; the rest of the episode
TrainEpisodeEnd ==
    /\ prog = "scenic_train" /\ pc = "train_loop"
    /\ ~TrainStepCond(env_active)
    /\ calls' = calls \o <<AllDoneCall(env_active)>> \o EndEpisodeCalls
                      \o EndTrainCalls(mode, agent_type, scenario_type)
                      \o EvalInTrainCalls(e_i, eval_in_train_freq)
                      \o SaveCalls(e_i, save_freq, mode)
    /\ saves' = saves \o [k \in 1..Len(SaveCalls(e_i, save_freq, mode)) |->
                            [call |-> SaveCalls(e_i, save_freq, mode)[k], itr |-> e_i]]
    /\ e_i' = e_i + 1
    /\ pc' = "train_head"
    /\ UNCHANGED <<cfg_vars, life_vars, close_vars, scn_vars, loop_vars, env_vars, scene_vars, policy_vars,
                   continue_episode, start_episode, episodes>>

\* line 190: the range is exhausted
TrainReturn ==
    /\ prog = "scenic_train" /\ pc = "train_head"
    /\ ~TrainRangeCond(e_i, train_episode)
    /\ pc' = "done"
    /\ UNCHANGED <<calls, cfg_vars, life_vars, close_vars, scn_vars, loop_vars, env_vars, scene_vars, policy_vars, train_vars>>

NextScenicTrain ==
    \/ ScenicRun \/ UpdateSceneAttempt \/ ScenicRunTrainAgent \/ ScenicRunTrainScenario
    \/ TrainEpisodeStart \/ TrainStep \/ TrainEpisodeEnd \/ TrainReturn

SpecScenicTrain == InitScenicTrain /\ [][NextScenicTrain]_vars

(***************************************************************************)
(* env.reset or env.step raising inside the loops.  Neither eval (both     *)
(* runners), train nor run has a try statement, so the exception leaves    *)
(* the loop, the method and run.                                           *)
(***************************************************************************)
\* what the simulator raises (a time-out of the client is a RuntimeError)
SimulatorErrors == {"RuntimeError"}

\* where control is after env.reset / env.step raised at position `at`
OnEnvErrorRetry(at) == at

OnEnvError(at) == "raised"

\* carla_runner.py 116-122: env.reset raises
CarlaResetFails ==
    /\ prog = "carla" /\ pc = "eval_head"
    /\ EvalLoopCond(config_lists)
    /\ \E s \in _eval_sampler(config_lists, num_scenario) :
         /\ scenario_configs' = s.selected
         /\ config_lists' = s.rest
         /\ num_finished_scenario' = num_finished_scenario + Len(s.selected)
         /\ reset_batches' = Append(reset_batches, s.selected)
    /\ pre_lists' = config_lists
    /\ calls' = calls \o <<"sampler", "reset:raise">>
    /\ \E exc \in SimulatorErrors : raised' = exc
    /\ pc' = OnEnvError(pc)
    /\ UNCHANGED <<cfg_vars, life_rest, close_vars, scn_vars, num_total_scenario, rewards_list,
                   env_vars, scene_vars, policy_vars, train_vars>>

\* carla_runner.py 124-133: env.step raises
CarlaStepFails ==
    /\ prog = "carla" /\ pc = "eval_loop"
    /\ ~CarlaBreak(EnvAllScenarioDone(env_active))
    /\ calls' = calls \o <<AllDoneCall(env_active), "agent.get_action", "step:raise">>
    /\ \E exc \in SimulatorErrors : raised' = exc
    /\ pc' = OnEnvError(pc)
    /\ UNCHANGED <<cfg_vars, life_rest, close_vars, scn_vars, loop_vars, env_vars, scene_vars,
                   policy_vars, train_vars>>

\* scenic_runner.py 248-260: env.reset raises in eval
ScenicResetFails ==
    /\ prog = "scenic_eval" /\ pc = "eval_head"
    /\ ScenicEvalLoopCond(config_lists)
    /\ \E s \in DataLoaderSampler(config_lists, num_scenario) :
         /\ scenario_configs' = s.selected
         /\ config_lists' = s.rest
         /\ num_finished_scenario' = num_finished_scenario + Len(s.selected)
         /\ reset_batches' = Append(reset_batches, s.selected)
    /\ pre_lists' = config_lists
    /\ calls' = calls \o <<"sampler", "run_scene", "get_static_obs",
                           "scenario.get_init_action", "reset:raise">>
    /\ \E exc \in SimulatorErrors : raised' = exc
    /\ pc' = OnEnvError(pc)
    /\ UNCHANGED <<cfg_vars, life_rest, close_vars, scn_vars, num_total_scenario, rewards_list,
                   env_vars, scene_vars, policy_vars, train_vars>>

\* scenic_runner.py 266-272: env.step raises in eval
ScenicStepFails ==
    /\ prog = "scenic_eval" /\ pc = "eval_loop"
    /\ ScenicStepCond(env_active)
    /\ calls' = calls \o <<AllDoneCall(env_active), "agent.get_action",
                           "scenario.get_action", "step:raise">>
    /\ \E exc \in SimulatorErrors : raised' = exc
    /\ pc' = OnEnvError(pc)
    /\ UNCHANGED <<cfg_vars, life_rest, close_vars, scn_vars, loop_vars, env_vars, scene_vars,
                   policy_vars, train_vars>>

\* scenic_runner.py 190-199: env.reset raises in train
TrainResetFails ==
    /\ prog = "scenic_train" /\ pc = "train_head"
    /\ TrainRangeCond(e_i, train_episode)
    /\ \E s \in DataLoaderSampler(config_lists, num_scenario) :
         scenario_configs' = s.selected
    /\ config_lists' = DataLoaderReset(num_total_scenario)
    /\ pre_lists' = config_lists
    /\ episodes' = Append(episodes, e_i)
    /\ calls' = <<"sampler", "reset_idx_counter", "get_static_obs",
                  "scenario.get_init_action", "reset:raise">>
    /\ \E exc \in SimulatorErrors : raised' = exc
    /\ pc' = OnEnvError(pc)
    /\ UNCHANGED <<cfg_vars, life_rest, close_vars, scn_vars, num_total_scenario,
                   num_finished_scenario, rewards_list, reset_batches, env_vars, scene_vars,
                   policy_vars, continue_episode, start_episode, e_i, saves>>

\* scenic_runner.py 206-212: env.step raises in train
TrainStepFails ==
    /\ prog = "scenic_train" /\ pc = "train_loop"
    /\ TrainStepCond(env_active)
    /\ calls' = calls \o <<AllDoneCall(env_active), "agent.get_action",
                           "scenario.get_action", "step:raise">>
    /\ \E exc \in SimulatorErrors : raised' = exc
    /\ pc' = OnEnvError(pc)
    /\ UNCHANGED <<cfg_vars, life_rest, close_vars, scn_vars, loop_vars, env_vars, scene_vars,
                   policy_vars, train_vars>>

NextEnvError ==
    \/ CarlaResetFails \/ CarlaStepFails
    \/ ScenicResetFails \/ ScenicStepFails
    \/ TrainResetFails \/ TrainStepFails

\* the three loops with a simulator that can fail
SpecEnvError ==
    /\ InitCarla \/ InitScenicEval \/ InitScenicTrain
    /\ [][NextCarla \/ NextScenicEval \/ NextScenicTrain \/ NextEnvError]_vars

(***************************************************************************)
(* CarlaRunner.close (carla_runner.py 170-186) on the simulator's actor    *)
(* registry.  A type_id and a filter are the sequences of their            *)
(* dot-separated parts.                                                    *)
(***************************************************************************)
\* lines 172-179
actor_filters ==
    << <<"vehicle", "*">>,
       <<"walker", "*">>,
       <<"controller", "ai", "walker">>,
       <<"sensor", "other", "collision">>,
       <<"sensor", "lidar", "ray_cast">>,
       <<"sensor", "camera", "rgb">> >>

\* type_ids of the actors a world can hold
ActorTypeIds ==
    { <<"vehicle", "tesla", "model3">>,
      <<"walker", "pedestrian", "0001">>,
      <<"controller", "ai", "walker">>,
      <<"sensor", "other", "collision">>,
      <<"sensor", "lidar", "ray_cast">>,
      <<"sensor", "camera", "rgb">>,
      <<"traffic", "traffic_light">> }

\* ActorList.filter: wildcard match of a type_id against a filter
Matches(filter, type_id) ==
    IF Last(filter) = "*"
    THEN /\ Len(type_id) >= Len(filter)
         /\ SubSeq(type_id, 1, Len(filter) - 1) = SubSeq(filter, 1, Len(filter) - 1)
    ELSE type_id = filter

\* a is attached, directly or not, to the actor b
RECURSIVE AttachedTo(_, _, _)
AttachedTo(reg, a, b) ==
    /\ reg[a].parent # 0
    /\ (reg[a].parent = b \/ AttachedTo(reg, reg[a].parent, b))

\* the simulator's actor.destroy()
Destroyed(reg, id, casc) ==
    [a \in DOMAIN reg |->
        IF a = id \/ (casc /\ AttachedTo(reg, a, id))
        THEN [reg[a] EXCEPT !.alive = FALSE]
        ELSE reg[a]]

\* line 183: if actor.is_alive
ShouldDestroyAlways(actor) == TRUE

ShouldDestroy(actor) == actor.alive

\* lines 182-186 for one actor; st = [reg, destroys, stops, dead]
CloseActor(st, id, casc) ==
    IF ShouldDestroy(st.reg[id])
    THEN [reg |-> Destroyed(st.reg, id, casc),
          destroys |-> Append(st.destroys, id),
          stops |-> IF st.reg[id].type_id = <<"controller", "ai", "walker">>
                    THEN Append(st.stops, id) ELSE st.stops,
          dead |-> st.dead + (IF st.reg[id].alive THEN 0 ELSE 1)]
    ELSE st

\* line 181: the inner loop over the actors that match the filter, from id on
RECURSIVE CloseFilter(_, _, _, _)
CloseFilter(st, filter, id, casc) ==
    IF id > Len(st.reg) THEN st
    ELSE CloseFilter(IF Matches(filter, st.reg[id].type_id)
                     THEN CloseActor(st, id, casc) ELSE st,
                     filter, id + 1, casc)

\* line 180: the outer loop over actor_filters, from the f-th filter on
RECURSIVE CloseFilters(_, _, _)
CloseFilters(st, f, casc) ==
    IF f > Len(actor_filters) THEN st
    ELSE CloseFilters(CloseFilter(st, actor_filters[f], 1, casc), f + 1, casc)

\* every registry of n actors: an actor is attached to none or to an older one
Registries(n) ==
    { reg \in [1..n -> [type_id : ActorTypeIds, alive : BOOLEAN, parent : 0..n]] :
        \A a \in 1..n : reg[a].parent < a }

InitClose ==
    /\ prog = "close"
    /\ pc = "idle"
    /\ mode = "eval"
    /\ num_scenario = 1
    /\ config_lists = <<>> /\ num_total_scenario = 0
    /\ NoBatchYet
    /\ NoScenicVars
    /\ NoScenarioVars /\ NoLifeVars
    /\ world_loaded \in BOOLEAN
    /\ cascade \in BOOLEAN
    /\ \E n \in 0..MaxActors : actors \in Registries(n)
    /\ ~world_loaded => (actors = <<>> /\ ~cascade)
    /\ close_results = <<>>
    /\ destroy_log = <<>>
    /\ stop_log = <<>>
    /\ dead_destroys = 0

\* close() with a world: lines 170-186
Close ==
    /\ prog = "close" /\ Len(close_results) < MaxClose
    /\ world_loaded
    /\ LET st == CloseFilters([reg |-> actors, destroys |-> destroy_log,
                               stops |-> stop_log, dead |-> dead_destroys], 1, cascade)
       IN /\ actors' = st.reg
          /\ destroy_log' = st.destroys
          /\ stop_log' = st.stops
          /\ dead_destroys' = st.dead
    /\ close_results' = Append(close_results, "ok")
    /\ UNCHANGED <<pc, calls, cfg_vars, life_vars, loop_vars, env_vars, scene_vars, policy_vars,
                   train_vars, world_loaded, cascade, scn_vars>>

\* close() when self.world is None (line 36): line 181 raises
CloseWithoutWorld ==
    /\ prog = "close" /\ Len(close_results) < MaxClose
    /\ ~world_loaded
    /\ close_results' = Append(close_results, "AttributeError")
    /\ UNCHANGED <<pc, calls, cfg_vars, life_vars, loop_vars, env_vars, scene_vars, policy_vars,
                   train_vars, world_loaded, actors, cascade, destroy_log, stop_log,
                   dead_destroys, scn_vars>>

NextClose == Close \/ CloseWithoutWorld

SpecClose == InitClose /\ [][NextClose]_vars

(***************************************************************************)
(* ScenicRunner.close (scenic_runner.py 358-361), on a runner whose run     *)
(* was never called (self.env is None, line 58) or has made the env (321).  *)
(***************************************************************************)
InitScenicClose ==
    /\ prog = "scenic_close"
    /\ pc = "idle"
    /\ mode = "eval"
    /\ num_scenario = 1
    /\ config_lists = <<>> /\ num_total_scenario = 0
    /\ NoBatchYet
    /\ NoScenicVars
    /\ NoScenarioVars
    /\ raised = "none"
    /\ agent_made = TRUE /\ scenario_made = TRUE
    /\ env_made \in BOOLEAN
    /\ renderer_made = env_made
    /\ world = NoWorld
    /\ fixed_delta_seconds = 0
    /\ scenario_policy_type = "none"
    /\ scenario_registered = TRUE
    /\ towns_left = 0
    /\ run_log = <<>>
    /\ fmp_files = <<>>
    /\ fmp_itr = [given |-> FALSE, value |-> 0]
    /\ fmp_result = [kind |-> "pending", model |-> <<>>, max_itr |-> 0]
    /\ NoTrace
    /\ world_loaded = env_made
    /\ cascade = FALSE
    /\ actors = <<>>
    /\ close_results = <<>>
    /\ destroy_log = <<>>
    /\ stop_log = <<>>
    /\ dead_destroys = 0

\* lines 359-361: the calls close makes
ScenicCloseCalls(env_exists) ==
    <<"pygame.quit">> \o (IF env_exists THEN <<"clean_up">> ELSE <<>>)

\* lines 358-361
ScenicClose ==
    /\ prog = "scenic_close" /\ Len(close_results) < MaxClose
    /\ calls' = calls \o ScenicCloseCalls(env_made)
    /\ close_results' = Append(close_results, "ok")
    /\ UNCHANGED <<pc, cfg_vars, life_vars, loop_vars, env_vars, scene_vars, policy_vars,
                   train_vars, world_loaded, actors, cascade, destroy_log, stop_log,
                   dead_destroys, scn_vars>>

\* close() of both runners
SpecCloseAny == (InitClose \/ InitScenicClose) /\ [][NextClose \/ ScenicClose]_vars

(***************************************************************************)
(* VehicleTurningRouteDynamic (object_crash_intersection.py 23-184).       *)
(* A lane is [lane_type, lane_width]; lanes[i] is the i-th lane to the     *)
(* right of the start waypoint, position 0 is the start waypoint itself.   *)
(***************************************************************************)
LaneTypes == {"Driving", "Shoulder", "Sidewalk", "Parking"}

LaneWidths == {2, 3}

\* waypoint.get_right_lane(): the position to the right, 0 - 1 for None
get_right_lane(g, pos) == IF pos + 1 <= Len(g) THEN pos + 1 ELSE 0 - 1

\* lines 75-94
IsLaneAParkingAnyWidth(g, pos) ==
    LET wp_next == get_right_lane(g, pos) IN
      /\ wp_next # 0 - 1
      /\ g[wp_next].lane_type = "Shoulder"
      /\ LET wp_next_next == get_right_lane(g, wp_next) IN
           /\ wp_next_next # 0 - 1
           /\ g[wp_next_next].lane_type = "Sidewalk"

is_lane_a_parking(g, pos) ==
    /\ g[pos].lane_width > 2
    /\ LET wp_next == get_right_lane(g, pos) IN
         /\ wp_next # 0 - 1
         /\ g[wp_next].lane_type = "Shoulder"
         /\ LET wp_next_next == get_right_lane(g, wp_next) IN
              /\ wp_next_next # 0 - 1
              /\ g[wp_next_next].lane_type = "Sidewalk"

\* lines 57-72: the loop, from the waypoint at pos with lane_changes so far
RECURSIVE RightLaneLoop(_, _, _)
RightLaneLoop(g, pos, lane_changes) ==
    LET wp_next == get_right_lane(g, pos) IN
    IF wp_next = 0 - 1 \/ g[wp_next].lane_type = "Sidewalk"
    THEN [waypoint |-> pos, lane_changes |-> lane_changes + 1]
    ELSE IF g[wp_next].lane_type = "Shoulder"
    THEN (IF is_lane_a_parking(g, wp_next)
          THEN [waypoint |-> wp_next, lane_changes |-> lane_changes + 2]
          ELSE [waypoint |-> pos, lane_changes |-> lane_changes + 1])
    ELSE RightLaneLoop(g, wp_next, lane_changes + 1)

\* lines 50-72
get_right_driving_lane(g, pos) == RightLaneLoop(g, pos, 0)

\* lines 162-166: the exception the caller sees when the spawn raised exc
SpawnFailurePropagates(exc) == exc

SpawnFailure(exc) == "SpawnOtherActorError"

\* ScenarioOperation.initialize_vehicle_actors, from spec.md 4.1: every actor
\* of types is spawned in turn and appended to the actors; a failed spawn raises
RECURSIVE SpawnActors(_, _, _, _)
SpawnActors(spawned, types, i, ok) ==
    IF i > Len(types) THEN [actors |-> spawned, raised |-> "none"]
    ELSE IF ~ok THEN [actors |-> spawned, raised |-> "RuntimeError"]
    ELSE SpawnActors(Append(spawned, [type |-> types[i], at |-> i]), types, i + 1, ok)

\* config.parameters[0] (line 118); line 114 gives 10 as its usual value
TargetVelocities == {8, 10}

LaneGraphs(n) == [1..n -> [lane_type : LaneTypes, lane_width : LaneWidths]]

\* the scenario after __init__ (lines 108-141)
InitScenario ==
    /\ prog = "scenario"
    /\ pc = "constructed"
    /\ mode = "eval"
    /\ num_scenario = 1
    /\ config_lists = <<>> /\ num_total_scenario = 0
    /\ NoBatchYet
    /\ NoScenicVars
    /\ NoCloseVars /\ NoLifeVars
    /\ \E n \in 0..MaxLanes : lanes \in LaneGraphs(n)
    /\ has_next_start \in BOOLEAN
    /\ has_next_added \in BOOLEAN
    /\ spawn_ok \in BOOLEAN
    /\ other_actors = <<>>
    /\ other_actor_transform = <<>>
    /\ actor_type_list = <<"vehicle.diamondback.century">>
    /\ reference_actor = "None"
    /\ _num_lane_changes = 0
    /\ error = "none"
    /\ commands = <<>>
    /\ _other_actor_target_velocity \in TargetVelocities
    /\ stop_checks = <<>>

\* lines 143-169
initialize_actors ==
    /\ prog = "scenario" /\ pc = "constructed"
    /\ LET lane == get_right_driving_lane(lanes, 0)
           spawn == SpawnActors(other_actors, actor_type_list, 1, spawn_ok)
       IN IF ~has_next_start
          THEN \* line 151: [0] of an empty list
               /\ error' = "IndexError"
               /\ UNCHANGED <<_num_lane_changes, other_actor_transform, other_actors,
                              reference_actor>>
          ELSE IF ~has_next_added
          THEN \* line 158: get_opponent_transform raises (line 34)
               /\ error' = "RuntimeError"
               /\ _num_lane_changes' = lane.lane_changes
               /\ UNCHANGED <<other_actor_transform, other_actors, reference_actor>>
          ELSE IF spawn.raised # "none"
          THEN \* lines 162-166
               /\ error' = SpawnFailure(spawn.raised)
               /\ _num_lane_changes' = lane.lane_changes
               /\ other_actor_transform' =
                      Append(other_actor_transform,
                             [lane |-> lane.waypoint, added_dist |-> lane.lane_changes])
               /\ other_actors' = spawn.actors
               /\ UNCHANGED reference_actor
          ELSE /\ error' = "none"
               /\ _num_lane_changes' = lane.lane_changes
               /\ other_actor_transform' =
                      Append(other_actor_transform,
                             [lane |-> lane.waypoint, added_dist |-> lane.lane_changes])
               /\ other_actors' = spawn.actors
               /\ reference_actor' = spawn.actors[1]
    /\ pc' = IF error' = "none" THEN "initialized" ELSE "failed"
    /\ UNCHANGED <<calls, cfg_vars, life_vars, loop_vars, env_vars, scene_vars, policy_vars,
                   train_vars, close_vars, lanes, has_next_start, has_next_added,
                   spawn_ok, actor_type_list, commands, _other_actor_target_velocity,
                   stop_checks>>

\* line 173: self.scenario_operation.go_straight(self._other_actor_target_velocity, i)
GoStraight(velocity, i) == [op |-> "go_straight", velocity |-> velocity, actor |-> i]

\* lines 171-173
update_behavior ==
    /\ prog = "scenario" /\ pc = "initialized"
    /\ Len(commands) < 2
    /\ commands' = Append(commands,
                          [k \in 1..Len(other_actors) |->
                              GoStraight(_other_actor_target_velocity, k - 1)])
    /\ UNCHANGED <<pc, calls, cfg_vars, life_vars, loop_vars, env_vars, scene_vars, policy_vars,
                   train_vars, close_vars, lanes, has_next_start, has_next_added,
                   spawn_ok, other_actors, other_actor_transform, actor_type_list,
                   reference_actor, _num_lane_changes, error,
                   _other_actor_target_velocity, stop_checks>>

\* line 180: the value check_stop_condition returns
StopWhenActorsSpawned(spawned) == spawned # <<>>

StopCondition(spawned) == FALSE

\* lines 175-180
check_stop_condition ==
    /\ prog = "scenario"
    /\ Len(stop_checks) < 2
    /\ stop_checks' = Append(stop_checks, StopCondition(other_actors))
    /\ UNCHANGED <<pc, calls, cfg_vars, life_vars, loop_vars, env_vars, scene_vars, policy_vars,
                   train_vars, close_vars, lanes, has_next_start, has_next_added,
                   spawn_ok, other_actors, other_actor_transform, actor_type_list,
                   reference_actor, _num_lane_changes, error, commands,
                   _other_actor_target_velocity>>

NextScenario == initialize_actors \/ update_behavior \/ check_stop_condition

SpecScenario == InitScenario /\ [][NextScenario]_vars

(***************************************************************************)
(* Construction and run of the runners: CarlaRunner.__init__ (18-63),      *)
(* _init_world (83-92), run (149-168); ScenicRunner.__init__ (35-126) and  *)
(* the last branch of its run (345-346).  mode is a plain attribute of the *)
(* runner: its user can assign it between construction and run.            *)
(***************************************************************************)
\* values scenario_config['mode'] can have
AllModes == {"eval", "train_agent", "train_scenario", "test"}

\* values of scenario_config['fixed_delta_seconds'], in hundredths of a second
DeltaSeconds == {5, 10}

\* values of scenario_config['type_name'].split('.')[0]
ScenarioPolicyNames == {"standard", "ordinary", "odrinary"}

\* carla_runner.py 50-61, 162-168 and scenic_runner.py 94-110, 327-346:
\* the mode has a branch that does not raise
ModeSupportedAny(m) == TRUE

ModeSupported(m) == m = "eval" \/ m = "train_scenario" \/ m = "train_agent"

\* carla_runner.py 85: self.client.load_world(town), a world with default settings
LoadWorld(town) ==
    [loaded |-> TRUE, town |-> town, synchronous_mode |-> FALSE,
     fixed_delta_seconds |-> 0, weather |-> "Default"]

\* carla_runner.py 83-92
InitWorldAsynchronous(town, delta) ==
    [LoadWorld(town) EXCEPT !.fixed_delta_seconds = delta, !.weather = "ClearNoon"]

InitWorld(town, delta) ==
    [LoadWorld(town) EXCEPT !.synchronous_mode = TRUE,
                            !.fixed_delta_seconds = delta,
                            !.weather = "ClearNoon"]

life_const == <<scenario_policy_type, scenario_registered, fixed_delta_seconds,
                fmp_files, fmp_itr, fmp_result, trace_vars>>

cfg_rest == <<num_scenario, scenario_category, agent_type, scenario_type,
              train_episode, save_freq, eval_in_train_freq, reject_all>>

other_vars == <<env_vars, scene_vars, policy_vars, train_vars, close_vars, scn_vars>>

InitCarlaRun ==
    /\ prog = "carla_run"
    /\ pc = "new"
    /\ mode \in AllModes
    /\ num_scenario \in 1..MaxNumScenario
    /\ config_lists = <<>> /\ num_total_scenario = 0
    /\ NoBatchYet
    /\ NoScenicVars
    /\ NoCloseVars /\ NoScenarioVars
    /\ raised = "none"
    /\ agent_made = FALSE /\ scenario_made = FALSE
    /\ env_made = FALSE /\ renderer_made = FALSE
    /\ world = NoWorld
    /\ fixed_delta_seconds \in DeltaSeconds
    /\ scenario_policy_type = "none"
    /\ scenario_registered = FALSE
    /\ towns_left \in 1..MaxTowns
    /\ run_log = <<>>
    /\ fmp_files = <<>>
    /\ fmp_itr = [given |-> FALSE, value |-> 0]
    /\ fmp_result = [kind |-> "pending", model |-> <<>>, max_itr |-> 0]
    /\ NoTrace

\* carla_runner.py 18-63
CarlaConstruct ==
    /\ prog = "carla_run" /\ pc = "new"
    /\ IF ModeSupported(mode)
       THEN /\ agent_made' = TRUE
            /\ pc' = "constructed"
            /\ UNCHANGED raised
       ELSE /\ raised' = "NotImplementedError"
            /\ pc' = "ctor_failed"
            /\ UNCHANGED agent_made
    /\ UNCHANGED <<calls, prog, mode, cfg_rest, loop_vars, other_vars, life_const,
                   scenario_made, env_made, renderer_made, world, towns_left, run_log>>

\* the user of the runner assigns runner.mode after construction
CarlaSetMode ==
    /\ prog = "carla_run" /\ pc = "constructed"
    /\ \E m \in AllModes \ {mode} : mode' = m
    /\ pc' = "mode_set"
    /\ UNCHANGED <<calls, prog, cfg_rest, loop_vars, other_vars, life_vars>>

\* carla_runner.py 152-154 and 83-92: the next town, _init_world
CarlaInitWorld ==
    /\ prog = "carla_run" /\ pc \in {"constructed", "mode_set", "town_done"}
    /\ towns_left > 0
    /\ world' = InitWorld(towns_left, fixed_delta_seconds)
    /\ towns_left' = towns_left - 1
    /\ run_log' = <<"_init_world">>
    /\ pc' = "init_renderer"
    /\ UNCHANGED <<calls, prog, mode, cfg_rest, loop_vars, other_vars, life_const, raised,
                   agent_made, scenario_made, env_made, renderer_made>>

\* carla_runner.py 156 and 94-111
CarlaInitRenderer ==
    /\ prog = "carla_run" /\ pc = "init_renderer"
    /\ renderer_made' = TRUE
    /\ run_log' = Append(run_log, "_init_renderer")
    /\ pc' = "make_env"
    /\ UNCHANGED <<calls, prog, mode, cfg_rest, loop_vars, other_vars, life_const, raised,
                   agent_made, scenario_made, env_made, world, towns_left>>

\* carla_runner.py 157-160
CarlaMakeEnv ==
    /\ prog = "carla_run" /\ pc = "make_env"
    /\ env_made' = TRUE
    /\ run_log' = Append(run_log, "VectorWrapper")
    /\ pc' = "run_branch"
    /\ UNCHANGED <<calls, prog, mode, cfg_rest, loop_vars, other_vars, life_const, raised,
                   agent_made, scenario_made, renderer_made, world, towns_left>>

\* carla_runner.py 162-163 and 113-115: eval is entered with the town's configs
CarlaRunEval ==
    /\ prog = "carla_run" /\ pc = "run_branch"
    /\ mode = "eval"
    /\ \E n \in 0..MaxConfigs :
         /\ config_lists' = Iota(n)
         /\ num_total_scenario' = n
    /\ scenario_configs' = <<>>
    /\ num_finished_scenario' = 0
    /\ rewards_list' = <<>>
    /\ pre_lists' = <<>>
    /\ reset_batches' = <<>>
    /\ env_assigned' = 0 /\ env_active' = <<>> /\ env_tick' = 0
    /\ env_done_tick' = <<>> /\ infos_hist' = <<>>
    /\ calls' = <<>>
    /\ run_log' = Append(run_log, "eval")
    /\ prog' = "carla"
    /\ pc' = "eval_head"
    /\ UNCHANGED <<mode, cfg_rest, scene_vars, policy_vars, train_vars, close_vars, scn_vars,
                   life_const, raised, agent_made, scenario_made, env_made, renderer_made,
                   world, towns_left>>

\* eval returns to run (carla_runner.py 163, then 152)
CarlaEvalReturns ==
    /\ prog = "carla" /\ pc = "done"
    /\ run_log # <<>>
    /\ prog' = "carla_run"
    /\ pc' = "town_done"
    /\ UNCHANGED <<calls, mode, cfg_rest, loop_vars, other_vars, life_vars>>

\* carla_runner.py 164-166
CarlaRunTrain ==
    /\ prog = "carla_run" /\ pc = "run_branch"
    /\ mode # "eval" /\ mode \in {"train_scenario", "train_agent"}
    /\ run_log' = run_log \o <<"trainer.set_environment", "trainer.train">>
    /\ pc' = "town_done"
    /\ UNCHANGED <<calls, prog, mode, cfg_rest, loop_vars, other_vars, life_const, raised,
                   agent_made, scenario_made, env_made, renderer_made, world, towns_left>>

\* carla_runner.py 167-168
CarlaRunUnsupported ==
    /\ prog = "carla_run" /\ pc = "run_branch"
    /\ ~ModeSupported(mode)
    /\ raised' = "NotImplementedError"
    /\ pc' = "raised"
    /\ UNCHANGED <<calls, prog, mode, cfg_rest, loop_vars, other_vars, life_rest>>

\* carla_runner.py 152: no town is left
CarlaRunReturn ==
    /\ prog = "carla_run" /\ pc \in {"constructed", "mode_set", "town_done"}
    /\ towns_left = 0
    /\ pc' = "returned"
    /\ UNCHANGED <<calls, prog, mode, cfg_rest, loop_vars, other_vars, life_vars>>

NextCarlaRun ==
    \/ CarlaConstruct \/ CarlaSetMode
    \/ CarlaInitWorld \/ CarlaInitRenderer \/ CarlaMakeEnv
    \/ CarlaRunEval \/ CarlaEvalReturns \/ CarlaRunTrain \/ CarlaRunUnsupported
    \/ CarlaRunReturn

\* CarlaRunner from construction to the return of run
SpecCarlaRun == InitCarlaRun /\ [][NextCarlaRun \/ NextCarla]_vars

\* scenic_runner.py 118: the scenario policy is the ordinary one, outside agent training
OrdinaryMisuse(type, m) == type = "odrinary" /\ m # "train_agent"

InitScenicInit ==
    /\ prog = "scenic_init"
    /\ pc = "new"
    /\ mode \in AllModes
    /\ num_scenario = 1
    /\ scenario_category = "planning"
    /\ agent_type = "offpolicy" /\ scenario_type = "onpolicy"
    /\ train_episode = 1 /\ save_freq = 1 /\ eval_in_train_freq = 1
    /\ reject_all \in BOOLEAN
    /\ config_lists = Iota(1)
    /\ num_total_scenario = 1
    /\ NoBatchYet
    /\ scene = 0 /\ candidate = 0 /\ scene_ret = "none"
    /\ agent_mode = "none" /\ scenario_mode = "none"
    /\ agent_loaded = FALSE /\ scenario_loaded = FALSE
    /\ continue_episode = 0 /\ start_episode = 0 /\ e_i = 0 /\ episodes = <<>>
    /\ saves = <<>>
    /\ NoCloseVars /\ NoScenarioVars
    /\ raised = "none"
    /\ agent_made = FALSE /\ scenario_made = FALSE
    /\ env_made = FALSE /\ renderer_made = FALSE
    /\ world = NoWorld
    /\ fixed_delta_seconds \in DeltaSeconds
    /\ scenario_policy_type \in ScenarioPolicyNames
    /\ scenario_registered \in BOOLEAN
    /\ towns_left = 0
    /\ run_log = <<>>
    /\ fmp_files = <<>>
    /\ fmp_itr = [given |-> FALSE, value |-> 0]
    /\ fmp_result = [kind |-> "pending", model |-> <<>>, max_itr |-> 0]
    /\ NoTrace

\* scenic_runner.py 35-126
ScenicConstruct ==
    /\ prog = "scenic_init" /\ pc = "new"
    /\ IF ~ModeSupported(mode)
       THEN \* line 110
            /\ raised' = "NotImplementedError"
            /\ pc' = "ctor_failed"
            /\ UNCHANGED <<agent_made, scenario_made>>
       ELSE IF OrdinaryMisuse(scenario_policy_type, mode)
       THEN \* line 120
            /\ raised' = "Exception"
            /\ pc' = "ctor_failed"
            /\ UNCHANGED <<agent_made, scenario_made>>
       ELSE IF ~scenario_registered
       THEN \* line 125: the lookup in SCENARIO_POLICY_LIST fails, after line 124
            /\ agent_made' = TRUE
            /\ raised' = "KeyError"
            /\ pc' = "ctor_failed"
            /\ UNCHANGED scenario_made
       ELSE \* lines 124-126
            /\ agent_made' = TRUE
            /\ scenario_made' = TRUE
            /\ pc' = "constructed"
            /\ UNCHANGED raised
    /\ UNCHANGED <<calls, prog, mode, cfg_rest, loop_vars, other_vars, life_const,
                   env_made, renderer_made, world, towns_left, run_log>>

\* the user of the runner assigns runner.mode after construction
ScenicSetMode ==
    /\ prog = "scenic_init" /\ pc = "constructed"
    /\ \E m \in AllModes \ {mode} : mode' = m
    /\ pc' = "mode_set"
    /\ UNCHANGED <<calls, prog, cfg_rest, loop_vars, other_vars, life_vars>>

\* scenic_runner.py 308-312: run is called and takes the config
ScenicCallRun ==
    /\ prog = "scenic_init" /\ pc \in {"constructed", "mode_set"}
    /\ prog' = IF mode = "eval" THEN "scenic_eval" ELSE "scenic_train"
    /\ run_log' = <<"run">>
    /\ pc' = "run"
    /\ UNCHANGED <<calls, mode, cfg_rest, loop_vars, other_vars, life_const, raised,
                   agent_made, scenario_made, env_made, renderer_made, world, towns_left>>

\* scenic_runner.py 345-346
ScenicRunUnsupported ==
    /\ prog \in {"scenic_eval", "scenic_train"} /\ pc = "branch"
    /\ ~ModeSupported(mode)
    /\ raised' = "NotImplementedError"
    /\ pc' = "raised"
    /\ UNCHANGED <<calls, prog, mode, cfg_rest, loop_vars, other_vars, life_rest>>

NextScenicInit == ScenicConstruct \/ ScenicSetMode \/ ScenicCallRun \/ ScenicRunUnsupported

\* both runners from construction on
SpecRunners ==
    /\ InitCarlaRun \/ InitScenicInit
    /\ [][NextCarlaRun \/ NextCarla \/ NextScenicInit \/ NextScenicEval \/ NextScenicTrain]_vars

(***************************************************************************)
(* find_model_path (util/run_util.py 41-66).  A file name is the sequence  *)
(* of its pieces: words, numerals, "_" and extensions, all strings; a file *)
(* is [sub, name], sub telling that it lies in a subdirectory of dir.      *)
(***************************************************************************)
\* int(s): the value of a numeral, 0 - 1 when s is no numeral (ValueError)
int(str) ==
    CASE str = "0" -> 0 [] str = "1" -> 1 [] str = "2" -> 2 [] str = "3" -> 3
      [] str = "10" -> 10 [] OTHER -> 0 - 1

\* str(n) for the numbers int can return
str(n) ==
    CASE n = 0 -> "0" [] n = 1 -> "1" [] n = 2 -> "2" [] n = 3 -> "3" [] n = 10 -> "10"

\* lines 50 and 55: fnmatch(name, "*pt")
fnmatch(name) == name # <<>> /\ Last(name) \in {".pt"}

\* name.split(sep): the pieces of name between the occurrences of sep
RECURSIVE split(_, _, _)
split(name, sep, piece) ==
    IF name = <<>> THEN <<piece>>
    ELSE IF Head(name) = sep THEN <<piece>> \o split(Tail(name), sep, <<>>)
    ELSE split(Tail(name), sep, Append(piece, Head(name)))

\* lines 44 and 61: "model_" + str(itr) + ".pt"
ModelName(itr) == <<"model", "_", str(itr), ".pt">>

\* lines 45 and 63: osp.exists(osp.join(dir, model))
Exists(files, model) == \E i \in 1..Len(files) : ~files[i].sub /\ files[i].name = model

\* line 59: if itr > max_itr
Newer(itr, max_itr) == itr > max_itr

\* lines 53-61: the scan, from the i-th file on
RECURSIVE ScanFiles(_, _, _, _)
ScanFiles(files, i, model, max_itr) ==
    IF i > Len(files) THEN [kind |-> "scanned", model |-> model, max_itr |-> max_itr]
    ELSE IF ~fnmatch(files[i].name) THEN ScanFiles(files, i + 1, model, max_itr)
    ELSE LET name == split(split(files[i].name, ".pt", <<>>)[1], "_", <<>>) IN
         IF ~(Len(name) > 1) THEN ScanFiles(files, i + 1, model, max_itr)
         ELSE IF Len(name[2]) # 1 \/ int(name[2][1]) < 0
         THEN [kind |-> "ValueError", model |-> <<>>, max_itr |-> 0]
         ELSE LET itr == int(name[2][1]) IN
              IF Newer(itr, max_itr)
              THEN ScanFiles(files, i + 1, ModelName(itr), itr)
              ELSE ScanFiles(files, i + 1, model, max_itr)

\* lines 41-66
find_model_path(files, itr) ==
    IF itr.given
    THEN IF ~Exists(files, ModelName(itr.value))
         THEN [kind |-> "None", model |-> <<>>, max_itr |-> 0]
         ELSE [kind |-> "path", model |-> ModelName(itr.value), max_itr |-> 0]
    ELSE LET scan == ScanFiles(files, 1, <<"model", ".pt">>, 0 - 1) IN
         IF scan.kind = "ValueError" THEN scan
         ELSE IF ~Exists(files, scan.model)
         THEN [kind |-> "None", model |-> <<>>, max_itr |-> 0]
         ELSE [kind |-> "pair", model |-> scan.model, max_itr |-> scan.max_itr]

\* files a checkpoint directory can hold
FilePool ==
    { [sub |-> FALSE, name |-> <<"model", ".pt">>],
      [sub |-> FALSE, name |-> <<"model", "_", "1", ".pt">>],
      [sub |-> FALSE, name |-> <<"model", "_", "2", ".pt">>],
      [sub |-> FALSE, name |-> <<"model", "_", "10", ".pt">>],
      [sub |-> FALSE, name |-> <<"optim", "_", "3", ".pt">>],
      [sub |-> FALSE, name |-> <<"model", "_", "best", ".pt">>],
      [sub |-> FALSE, name |-> <<"config", ".yaml">>],
      [sub |-> TRUE, name |-> <<"model", "_", "3", ".pt">>] }

\* os.walk: every file once, those of dir before those of its subdirectories
Walks(n) ==
    { w \in [1..n -> FilePool] :
        /\ \A i, j \in 1..n : i < j => w[i] # w[j]
        /\ \A i, j \in 1..n : (i < j /\ w[i].sub) => w[j].sub }

InitFindModelPath ==
    /\ prog = "find_model_path"
    /\ pc = "call"
    /\ mode = "eval"
    /\ num_scenario = 1
    /\ config_lists = <<>> /\ num_total_scenario = 0
    /\ NoBatchYet
    /\ NoScenicVars
    /\ NoCloseVars /\ NoScenarioVars
    /\ raised = "none"
    /\ agent_made = FALSE /\ scenario_made = FALSE
    /\ env_made = FALSE /\ renderer_made = FALSE
    /\ world = NoWorld
    /\ fixed_delta_seconds = 0
    /\ scenario_policy_type = "none"
    /\ scenario_registered = FALSE
    /\ towns_left = 0
    /\ run_log = <<>>
    /\ \E n \in 0..MaxFiles : fmp_files \in Walks(n)
    /\ fmp_itr \in {[given |-> FALSE, value |-> 0], [given |-> TRUE, value |-> 1],
                     [given |-> TRUE, value |-> 3]}
    /\ fmp_result = [kind |-> "pending", model |-> <<>>, max_itr |-> 0]
    /\ NoTrace

FindModelPathCall ==
    /\ prog = "find_model_path" /\ pc = "call"
    /\ fmp_result' = find_model_path(fmp_files, fmp_itr)
    /\ pc' = "returned"
    /\ UNCHANGED <<calls, cfg_vars, loop_vars, env_vars, scene_vars, policy_vars, train_vars,
                   close_vars, scn_vars, raised, agent_made, scenario_made, env_made,
                   renderer_made, world, fixed_delta_seconds, scenario_policy_type,
                   scenario_registered, towns_left, run_log, fmp_files, fmp_itr, trace_vars>>

SpecFindModelPath == InitFindModelPath /\ [][FindModelPathCall]_vars

(***************************************************************************)
(* Properties.                                                             *)
(***************************************************************************)
Count(x, seq) == Cardinality({i \in 1..Len(seq) : seq[i] = x})

Positions(x, seq) == {i \in 1..Len(seq) : seq[i] = x}

RECURSIVE Flatten(_)
Flatten(ss) == IF ss = <<>> THEN <<>> ELSE Head(ss) \o Flatten(Tail(ss))

InEval == prog \in {"carla", "scenic_eval"}

\* a batch was reset and its loop has ended with clean_up
BatchEnded == InEval /\ calls # <<>> /\ pc \in {"eval_head", "update_scene", "done"}

\* number of ticks in which slot k was active so far in the batch
TicksActive(k) == IF env_done_tick[k] = 0 THEN env_tick ELSE env_done_tick[k]

\* the reward / score the environment produced for scenario k at tick t
ProducedFor(k, t) ==
    [src |-> IF prog = "scenic_eval" /\ scenario_category = "perception"
             THEN "1-iou_loss" ELSE "reward",
     id |-> k, tick |-> t]

\* C1: in both eval loops the accumulator entry of scenario k holds exactly
\* the values the environment produced for k, one per tick in which k was
\* active, in tick order, whatever the other scenarios did.
C1_RewardsRoutedByScenarioId ==
    (InEval /\ reset_batches # <<>>) =>
        /\ DOMAIN rewards_list = 0..(env_assigned - 1)
        /\ \A k \in 0..(env_assigned - 1) :
             rewards_list[k] = [t \in 1..TicksActive(k) |-> ProducedFor(k, t)]

C1_Witness ==
    /\ prog = "carla" /\ BatchEnded
    /\ env_assigned = 3
    /\ env_done_tick = [k \in 0..2 |-> IF k = 1 THEN 2 ELSE 3]
    /\ Len(rewards_list[1]) = 2 /\ Len(rewards_list[0]) = 3 /\ Len(rewards_list[2]) = 3

C3_SamplerWithoutReplacement ==
    (prog = "carla" /\ reset_batches # <<>>) =>
        /\ Len(scenario_configs) = Min(num_scenario, Len(pre_lists))
        /\ Len(scenario_configs) <= num_scenario
        /\ Cardinality(Range(scenario_configs)) = Len(scenario_configs)
        /\ Range(scenario_configs) \subseteq Range(pre_lists)
        /\ config_lists = SelectSeq(pre_lists, LAMBDA c : c \notin Range(scenario_configs))

C3_Witness ==
    /\ prog = "carla" /\ pc = "eval_loop"
    /\ num_scenario = 2 /\ pre_lists = <<1, 2, 3>>
    /\ scenario_configs = <<3, 1>> /\ config_lists = <<2>>

\* C4: CarlaRunner.eval terminates, and on termination the config list is
\* empty, every config of the initial list was passed to env.reset in
\* exactly one batch, and num_finished_scenario = num_total_scenario.
C4_EvalTerminatesComplete ==
    /\ <>(pc = "done")
    /\ [](pc = "done" =>
            /\ config_lists = <<>>
            /\ Len(Flatten(reset_batches)) = num_total_scenario
            /\ Range(Flatten(reset_batches)) = 1..num_total_scenario
            /\ num_finished_scenario = num_total_scenario)

C4_Witness ==
    /\ prog = "carla" /\ pc = "done"
    /\ num_total_scenario = 3 /\ Len(reset_batches) = 2

\* the calls of calls that go to the environment's batch protocol
EnvCalls(log) ==
    SelectSeq(log, LAMBDA c : c \in {"reset", "step", "clean_up", "all_done:T", "all_done:F"})

\* state of the batch protocol after the calls of log
RECURSIVE ProtocolState(_, _)
ProtocolState(st, log) ==
    IF log = <<>> THEN st
    ELSE LET c == Head(log)
             nxt == CASE st = "idle" /\ c = "reset" -> "open"
                      [] st = "open" /\ c = "all_done:F" -> "may_step"
                      [] st = "open" /\ c = "all_done:T" -> "must_clean"
                      [] st = "may_step" /\ c = "step" -> "open"
                      [] st = "must_clean" /\ c = "clean_up" -> "idle"
                      [] OTHER -> "error"
         IN ProtocolState(nxt, Tail(log))

\* C5: in every eval batch of both runners the environment is called as
\* reset, then steps each issued right after all_scenario_done() answered
\* false, then one clean_up right after it answered true; no step after a
\* true answer, no reset before the clean_up of the batch before, and
\* every batch is cleaned up when eval returns.
C5_BatchProtocol ==
    InEval =>
        /\ ProtocolState("idle", EnvCalls(calls)) # "error"
        /\ pc \in {"eval_loop"} => ProtocolState("idle", EnvCalls(calls)) = "open"
        /\ pc \in {"eval_head", "update_scene", "done"} =>
               ProtocolState("idle", EnvCalls(calls)) = "idle"

C5_Witness ==
    /\ prog = "scenic_eval" /\ pc = "done"
    /\ Len(reset_batches) = 2
    /\ Count("step", calls) >= 3 /\ Count("clean_up", calls) = 2

Trainee == IF mode = "train_agent" THEN "agent" ELSE "scenario"

TraineeType == IF mode = "train_agent" THEN agent_type ELSE scenario_type

TraineeTrain == IF mode = "train_agent" THEN "agent.train" ELSE "scenario.train"

C7_ResumeFromCheckpoint ==
    (prog = "scenic_train" /\ pc \in {"train_head", "train_loop", "done"}) =>
        /\ start_episode = continue_episode
        /\ \A j \in 1..Len(episodes) : episodes[j] = continue_episode + j - 1
        /\ pc = "done" => Len(episodes) = Max(0, train_episode - continue_episode)

C7_Witness ==
    /\ prog = "scenic_train" /\ pc = "done"
    /\ continue_episode = 1 /\ train_episode = 3
    /\ episodes = <<1, 2>>

\* C9: update_scene is bounded: when the simulation binding rejects every
\* candidate, update_scene still leaves its retry loop.
C9_UpdateSceneLeavesLoop ==
    [](pc = "update_scene" /\ reject_all => <>(pc # "update_scene"))

ManagedType(type_id) == \E f \in 1..Len(actor_filters) : Matches(actor_filters[f], type_id)

\* C8: once close() has returned, no actor matching the managed filters is
\* alive; a second close() in a row returns without error too; destroy is
\* never requested on an actor that is not alive, nor twice on one actor.
C8_CloseCompleteIdempotent ==
    (prog = "close" /\ world_loaded /\ close_results # <<>>) =>
        /\ \A a \in DOMAIN actors : ManagedType(actors[a].type_id) => ~actors[a].alive
        /\ \A i \in 1..Len(close_results) : close_results[i] = "ok"
        /\ dead_destroys = 0
        /\ Cardinality(Range(destroy_log)) = Len(destroy_log)

C8_Witness ==
    /\ prog = "close" /\ world_loaded /\ cascade
    /\ Len(close_results) = 2
    /\ Len(actors) = 2
    /\ actors[1].type_id = <<"vehicle", "tesla", "model3">>
    /\ actors[2].type_id = <<"sensor", "camera", "rgb">> /\ actors[2].parent = 1
    /\ destroy_log = <<1>>

\* C10: when the spawn of the requested other actor fails, initialize_actors
\* raises SpawnOtherActorError, reference_actor stays unset and the scenario
\* holds no spawned actor and receives no behavior update.
C10_SpawnFailureAborts ==
    (prog = "scenario" /\ pc # "constructed"
        /\ has_next_start /\ has_next_added /\ ~spawn_ok) =>
        /\ error = "SpawnOtherActorError"
        /\ pc = "failed"
        /\ reference_actor = "None"
        /\ other_actors = <<>>
        /\ commands = <<>>

C10_Witness ==
    /\ prog = "scenario" /\ pc = "failed"
    /\ has_next_start /\ has_next_added /\ ~spawn_ok
    /\ error = "SpawnOtherActorError"
    /\ Len(other_actor_transform) = 1

\* the lane at position p of g is missing, a sidewalk or typed as a shoulder
EndsWalk(g, p) == p > Len(g) \/ g[p].lane_type \in {"Sidewalk", "Shoulder"}

\* the first such position to the right of the start waypoint
FirstEnd(g) ==
    CHOOSE p \in 1..(Len(g) + 1) : EndsWalk(g, p) /\ \A q \in 1..(p - 1) : ~EndsWalk(g, q)

\* a wide Shoulder-typed lane followed by a Shoulder and then a Sidewalk
ParkingPattern(g, p) ==
    /\ p + 2 <= Len(g)
    /\ g[p].lane_type = "Shoulder" /\ g[p].lane_width > 2
    /\ g[p + 1].lane_type = "Shoulder"
    /\ g[p + 2].lane_type = "Sidewalk"

RightMostDrivable(g) ==
    IF ParkingPattern(g, FirstEnd(g)) THEN FirstEnd(g) ELSE FirstEnd(g) - 1

\* the waypoint get_right_driving_lane returned to initialize_actors
ReturnedLane == other_actor_transform[1].lane

\* C12: on every lane graph get_right_driving_lane returns the lane just
\* before the first missing lane, sidewalk or shoulder met when walking
\* right from the input waypoint, except that it steps onto that shoulder
\* (and stops there) when it is a parking lane: wider than 2, followed by a
\* Shoulder and then a Sidewalk; a narrow shoulder is never stepped onto.
C12_RightMostDrivableLane ==
    (prog = "scenario" /\ other_actor_transform # <<>>) =>
        /\ ReturnedLane = RightMostDrivable(lanes)
        /\ ReturnedLane > 0 /\ lanes[ReturnedLane].lane_type = "Shoulder" =>
               ParkingPattern(lanes, ReturnedLane)
        /\ \A p \in 1..ReturnedLane : lanes[p].lane_type # "Sidewalk"

C12_Witness ==
    /\ prog = "scenario" /\ other_actor_transform # <<>>
    /\ Len(lanes) = 3
    /\ ParkingPattern(lanes, 1)
    /\ ReturnedLane = 1

\* C13: the count get_right_driving_lane returns equals the number of lanes
\* between the input waypoint and the returned waypoint (0 when the input
\* waypoint itself is returned).
C13_CountIsLanesMoved ==
    (prog = "scenario" /\ other_actor_transform # <<>>) =>
        _num_lane_changes = ReturnedLane

\* C14: check_stop_condition returns false whenever it is called and leaves
\* the scenario as it was; every call of update_behavior commands each
\* spawned other actor, and no other, to go straight at the target velocity.
C14_NeverStopsAndGoesStraight ==
    /\ [](prog = "scenario" =>
            /\ \A i \in 1..Len(stop_checks) : stop_checks[i] = FALSE
            /\ \A c \in 1..Len(commands) :
                 /\ Len(commands[c]) = Len(other_actors)
                 /\ \A k \in 1..Len(other_actors) :
                      commands[c][k] = [op |-> "go_straight",
                                        velocity |-> _other_actor_target_velocity,
                                        actor |-> k - 1])
    /\ [][stop_checks' # stop_checks =>
            UNCHANGED <<pc, other_actors, other_actor_transform, reference_actor,
                        _num_lane_changes, error, commands>>]_vars

C14_Witness ==
    /\ prog = "scenario" /\ pc = "initialized"
    /\ Len(other_actors) = 1
    /\ Len(stop_checks) = 2 /\ Len(commands) = 2

TraineeSave == IF mode = "train_agent" THEN "agent.save_model" ELSE "scenario.save_model"

OtherSave == IF mode = "train_agent" THEN "scenario.save_model" ELSE "agent.save_model"

\* an episode of train has just ended
EpisodeEnded == prog = "scenic_train" /\ pc \in {"train_head", "done"} /\ episodes # <<>>

\* the save_model calls due for the episodes es
SavesDue(es) ==
    LET due == SelectSeq(es, LAMBDA e : (e + 1) % save_freq = 0)
    IN [j \in 1..Len(due) |-> [call |-> TraineeSave, itr |-> due[j]]]

\* C15: save_model(e_i) is called at the end of episode e_i exactly when
\* e_i + 1 is a multiple of save_freq, once, on the policy trained in the
\* current mode and on no other, after the episode's clean_up,
\* finish_one_episode and on-policy training.
C15_SaveCadence ==
    EpisodeEnded =>
        /\ saves = SavesDue(episodes)
        /\ Count(TraineeSave, calls) = IF (Last(episodes) + 1) % save_freq = 0 THEN 1 ELSE 0
        /\ Count(OtherSave, calls) = 0
        /\ \A i \in Positions(TraineeSave, calls) :
             \A j \in Positions("clean_up", calls) \cup Positions("finish_one_episode", calls)
                       \cup Positions(TraineeTrain, calls) : j < i

C15_Witness ==
    /\ EpisodeEnded /\ pc = "done"
    /\ mode = "train_scenario" /\ scenario_type = "onpolicy"
    /\ save_freq = 2 /\ episodes = <<0, 1, 2>>
    /\ saves = <<[call |-> "scenario.save_model", itr |-> 1]>>

\* C16: at the end of every episode e_i for which e_i + 1 is a multiple of
\* eval_in_train_freq an evaluation rollout is run.
C16_EvalInTrain ==
    (EpisodeEnded /\ (Last(episodes) + 1) % eval_in_train_freq = 0) =>
        "eval" \in Range(calls)

FailedCalls(log) == Positions("reset:raise", log) \cup Positions("step:raise", log)

\* C17: when env.reset or env.step raises in an eval or train loop, the
\* exception leaves the loop and run (it reaches the caller), and the
\* failed call is the last call of the run: no sampler, reset or step call
\* follows it.
C17_EnvErrorPropagates ==
    /\ FailedCalls(calls) # {} =>
          /\ FailedCalls(calls) = {Len(calls)}
          /\ pc = "raised"
          /\ raised \in SimulatorErrors
    /\ (prog \in {"carla", "scenic_eval", "scenic_train"} /\ raised # "none") =>
          /\ pc = "raised"
          /\ FailedCalls(calls) = {Len(calls)}
          /\ ~ENABLED (NextCarla \/ NextScenicEval \/ NextScenicTrain \/ NextEnvError)

C17_Witness ==
    /\ prog = "scenic_train" /\ pc = "raised"
    /\ episodes = <<0, 1>>
    /\ Count("step", calls) = 1 /\ Last(calls) = "step:raise"

\* the numbers n for which dir itself holds a file model_<n>.pt
NumberedCheckpoints ==
    {n \in {0, 1, 2, 3, 10} :
        \E i \in 1..Len(fmp_files) :
            ~fmp_files[i].sub /\ fmp_files[i].name = <<"model", "_", str(n), ".pt">>}

NoneResult == [kind |-> "None", model |-> <<>>, max_itr |-> 0]

\* C18: without itr, find_model_path returns model_<n>.pt for the largest n
\* among the files model_<n>.pt of dir, with that n; model.pt with -1 when
\* dir has no numbered checkpoint; None, and no exception, when the file
\* selected does not exist.  With itr it selects exactly model_<itr>.pt.
C18_MostRecentCheckpoint ==
    (prog = "find_model_path" /\ pc = "returned") =>
        IF fmp_itr.given
        THEN fmp_result =
                IF fmp_itr.value \in NumberedCheckpoints
                THEN [kind |-> "path",
                      model |-> <<"model", "_", str(fmp_itr.value), ".pt">>, max_itr |-> 0]
                ELSE NoneResult
        ELSE IF NumberedCheckpoints # {}
        THEN LET n == CHOOSE m \in NumberedCheckpoints : \A k \in NumberedCheckpoints : k <= m
             IN fmp_result = [kind |-> "pair", model |-> <<"model", "_", str(n), ".pt">>,
                              max_itr |-> n]
        ELSE fmp_result =
                IF \E i \in 1..Len(fmp_files) :
                      ~fmp_files[i].sub /\ fmp_files[i].name = <<"model", ".pt">>
                THEN [kind |-> "pair", model |-> <<"model", ".pt">>, max_itr |-> 0 - 1]
                ELSE NoneResult

\* the modes the runners know
SupportedModes == {"eval", "train_agent", "train_scenario"}

\* positions of a run with an unsupported mode: before the constructor, after
\* its failure, and in run up to the branch on the mode or after its raise
UnsupportedModePositions ==
    {"new", "ctor_failed", "mode_set", "init_renderer", "make_env", "run_branch",
     "run", "update_scene", "branch", "raised"}

\* C11: a runner constructed with a mode other than eval, train_agent and
\* train_scenario raises NotImplementedError in its constructor, with no
\* agent or scenario policy instantiated, no world loaded and no
\* environment created; run, reaching its branch on the mode with such a
\* mode, raises NotImplementedError: it neither enters a loop nor returns.
C11_UnsupportedModeFailsFast ==
    (prog \in {"carla_run", "carla", "scenic_init", "scenic_eval", "scenic_train"}
        /\ mode \notin SupportedModes) =>
        /\ pc \in UnsupportedModePositions
        /\ pc = "ctor_failed" =>
              /\ raised = "NotImplementedError"
              /\ ~agent_made /\ ~scenario_made
              /\ ~world.loaded /\ ~env_made
        /\ pc = "raised" => raised = "NotImplementedError"
        /\ pc # "raised" /\ pc # "ctor_failed" => raised = "none"

C11_Witness ==
    /\ prog = "scenic_init" /\ pc = "ctor_failed"
    /\ mode = "test"
    /\ raised = "NotImplementedError"

\* the steps of run for one town, in order
RunSteps(branch) == <<"_init_world", "_init_renderer", "VectorWrapper">> \o branch

\* C19: for each town CarlaRunner.run loads the town and leaves the world
\* synchronous with the configured fixed_delta_seconds and ClearNoon
\* weather, then initializes the renderer, then constructs the vectorized
\* environment, and then starts the branch of the mode; every reset and
\* step of eval happens in a synchronous world.
C19_RunOrder ==
    (run_log # <<>> /\ prog \in {"carla_run", "carla"}) =>
        /\ \/ \E n \in 1..3 : run_log = SubSeq(RunSteps(<<>>), 1, n)
           \/ run_log = RunSteps(<<"eval">>)
           \/ run_log = RunSteps(<<"trainer.set_environment", "trainer.train">>)
        /\ world.loaded /\ world.synchronous_mode
        /\ world.fixed_delta_seconds = fixed_delta_seconds
        /\ world.weather = "ClearNoon"
        /\ prog = "carla" =>
              /\ run_log = RunSteps(<<"eval">>)
              /\ renderer_made /\ env_made
        /\ (\E i \in 1..Len(calls) : calls[i] \in {"reset", "step"}) =>
              /\ world.synchronous_mode
              /\ renderer_made /\ env_made

C19_Witness ==
    /\ prog = "carla" /\ pc = "eval_loop"
    /\ run_log = RunSteps(<<"eval">>)
    /\ world.town = 1 /\ world.fixed_delta_seconds = 5
    /\ Count("reset", calls) = 2 /\ Count("step", calls) >= 2

\* C20: constructing a ScenicRunner with the ordinary scenario policy in a
\* mode other than train_agent raises in the constructor, before any
\* policy object is created.
C20_OrdinaryOnlyInAgentTraining ==
    (prog = "scenic_init" /\ pc \in {"constructed", "ctor_failed"}
        /\ scenario_policy_type = "ordinary" /\ mode # "train_agent") =>
        /\ pc = "ctor_failed"
        /\ raised # "none"
        /\ ~agent_made /\ ~scenario_made

\* the calls of train that make up the episode protocol
EpisodeCalls ==
    {"get_static_obs", "scenario.get_init_action", "reset", "store_init",
     "agent.get_action", "scenario.get_action", "step", "store",
     "clean_up", "finish_one_episode"}

EpisodeHead == <<"get_static_obs", "scenario.get_init_action", "reset", "store_init">>

EpisodeTick == <<"agent.get_action", "scenario.get_action", "step", "store">>

EpisodeTail == <<"clean_up", "finish_one_episode">>

EpisodeTicks(k) == Flatten([i \in 1..k |-> EpisodeTick])

C22_TransitionsChained ==
    (prog = "scenic_train" /\ pc \in {"train_head", "train_loop", "done"}) =>
        /\ Len(stored) = Count("store", calls)
        /\ \A i \in 1..Len(stored) :
             /\ stored[i].ego_actions = [policy |-> "agent", obs |-> stored[i].obs]
             /\ stored[i].scenario_actions = [policy |-> "scenario", obs |-> stored[i].obs]
             /\ i = 1 => stored[i].obs = EnvResetObs
             /\ i > 1 => stored[i].obs = stored[i - 1].next_obs
             /\ stored[i].next_obs = EnvStepObs(i)

C22_Witness ==
    /\ prog = "scenic_train" /\ pc = "train_head"
    /\ Len(stored) = 3
    /\ stored[3].obs = 2 /\ stored[3].ego_actions.obs = 2 /\ stored[3].next_obs = 3

\* run has entered eval or train
EnteredLoop ==
    /\ prog \in {"scenic_eval", "scenic_train"}
    /\ \/ pc \in {"eval_head", "eval_loop", "train_head", "train_loop", "done"}
       \/ pc = "update_scene" /\ scene_ret = "eval"

\* C23: when ScenicRunner.run enters eval or train the policies are set up
\* by the mode: in 'eval' both were loaded and are in mode 'eval'; in
\* 'train_agent' the agent is in mode 'train', the scenario policy was
\* loaded and is in mode 'eval'; in 'train_scenario' the scenario policy is
\* in mode 'train', the agent was loaded and is in mode 'eval'.  The two
\* policies are never both in mode 'train'.
C23_PolicyModesByRunMode ==
    /\ ~(agent_mode = "train" /\ scenario_mode = "train")
    /\ EnteredLoop =>
         /\ mode = "eval" =>
              /\ agent_loaded /\ scenario_loaded
              /\ agent_mode = "eval" /\ scenario_mode = "eval"
         /\ mode = "train_agent" =>
              /\ agent_mode = "train"
              /\ scenario_loaded /\ scenario_mode = "eval"
         /\ mode = "train_scenario" =>
              /\ scenario_mode = "train"
              /\ agent_loaded /\ agent_mode = "eval"

C23_Witness ==
    /\ prog = "scenic_train" /\ pc = "train_loop" /\ run_log # <<>>
    /\ mode = "train_scenario"
    /\ scenario_mode = "train" /\ agent_mode = "eval" /\ agent_loaded
    /\ Count("step", calls) >= 1

OtherTrain == IF mode = "train_agent" THEN "scenario.train" ELSE "agent.train"

\* C24: in ScenicRunner.train only the policy the mode selects is trained
\* or checkpointed, whatever the declared types of the two policies: in
\* 'train_agent' no scenario.train and no scenario.save_model is called, in
\* 'train_scenario' no agent.train and no agent.save_model.
C24_OnlyTraineeTrainedOrSaved ==
    (prog = "scenic_train") =>
        /\ OtherTrain \notin Range(calls)
        /\ OtherSave \notin Range(calls)
        /\ \A i \in 1..Len(saves) : saves[i].call = TraineeSave

C24_Witness ==
    /\ prog = "scenic_train" /\ pc = "done"
    /\ mode = "train_scenario"
    /\ agent_type = "onpolicy" /\ scenario_type = "onpolicy"
    /\ "scenario.train" \in Range(calls)
    /\ Len(saves) >= 1 /\ Len(episodes) >= 2

\* C25: in ScenicRunner.eval every batch runs on its own accepted scene:
\* before each run_scene a scene was accepted by setSimulation since the
\* run_scene before (by the update_scene of _init_world for the first batch,
\* by the update_scene after a batch for the next one), self.scene is
\* always the scene accepted last, never a rejected candidate, and
\* update_scene is not called after the last batch.
C25_OneAcceptedScenePerBatch ==
    (prog = "scenic_eval") =>
        /\ scene = accepted_scene
        /\ Len(runs_fresh) = Count("run_scene", calls)
        /\ \A i \in 1..Len(runs_fresh) : runs_fresh[i]
        /\ pc \in {"eval_head", "eval_loop", "done"} => scene # 0
        /\ pc = "eval_loop" => update_scene_calls = Len(runs_fresh)
        /\ pc = "update_scene" => update_scene_calls = Len(runs_fresh) + 1
        /\ pc = "done" => update_scene_calls = Len(runs_fresh)

C25_Witness ==
    /\ prog = "scenic_eval" /\ pc = "update_scene" /\ scene_ret = "eval"
    /\ Len(runs_fresh) = 2 /\ update_scene_calls = 3
    /\ candidate # scene /\ ~scene_fresh

C27_CloseIsSafe ==
    (prog \in {"close", "scenic_close"}) =>
        /\ \A i \in 1..Len(close_results) : close_results[i] = "ok"
        /\ (prog = "scenic_close" /\ env_made /\ close_results # <<>>) =>
               "clean_up" \in Range(calls)
        /\ (prog = "close" /\ world_loaded /\ close_results # <<>>) =>
               \A a \in DOMAIN actors : ManagedType(actors[a].type_id) => ~actors[a].alive

\* close() of a ScenicRunner alone
ScenicCloseSafe ==
    (prog = "scenic_close") =>
        /\ \A i \in 1..Len(close_results) : close_results[i] = "ok"
        /\ (env_made /\ close_results # <<>>) => "clean_up" \in Range(calls)
        /\ ~env_made => "clean_up" \notin Range(calls)

\* C28: every failure of initialize_actors is reported as
\* SpawnOtherActorError: whichever step fails (no waypoint start_distance
\* ahead, no forward waypoint in get_opponent_transform, or the spawn), the
\* caller observes SpawnOtherActorError and no other error type.
C28_EveryFailureIsSpawnError ==
    (prog = "scenario" /\ pc = "failed") => error = "SpawnOtherActorError"

\* the failure of the spawn alone
SpawnFailureIsSpawnError ==
    (prog = "scenario" /\ pc = "failed" /\ has_next_start /\ has_next_added) =>
        error = "SpawnOtherActorError"

\* every program of the model
Init ==
    \/ InitCarla \/ InitScenicEval \/ InitScenicTrain \/ InitClose \/ InitScenario
    \/ InitFindModelPath \/ InitCarlaRun \/ InitScenicInit \/ InitScenicClose

Next ==
    \/ NextCarla \/ NextScenicEval \/ NextScenicTrain \/ NextClose \/ NextScenario
    \/ NextEnvError \/ FindModelPathCall \/ NextCarlaRun \/ NextScenicInit \/ ScenicClose

Spec == Init /\ [][Next]_vars

====
